---- MODULE Spec2Model ----
(***************************************************************************)
(* A model of the question scraper: the incremental store (storage.py),    *)
(* the throttling / retrying / caching HTTP client (client.py) and the     *)
(* per-session walker (scrape.py, with the id and answer helpers of        *)
(* parser.py).                                                             *)
(*                                                                         *)
(* Text is modelled as a sequence of one-character strings, so that        *)
(* str.strip, str.split, str.isdigit and the f-string formatting of ids    *)
(* are computed and not assumed.  Python's None is the value None below.   *)
(***************************************************************************)
EXTENDS Integers, Sequences, FiniteSets, TLC

VARIABLES
    \* ---- QuestionStore (storage.py) ----
    seed,               \* self.seed["questions"]: the loaded corpus, in file order
    by_id,              \* self._by_id: an insertion-ordered dict, as a sequence of [k, v]
    sequence_per_year,  \* self._sequence_per_year: a Counter
    prefer_new,         \* self.prefer_new
    added,              \* self.added
    replaced,           \* self.replaced
    skipped,            \* self.skipped
    outFile,            \* the corpus file at out_path as this run has written it
    \* ---- HttpClient (client.py) ----
    cache_enabled,      \* self.cache_enabled
    throttle_seconds,   \* self.throttle_seconds, in ticks of one second
    max_retries,        \* self.max_retries
    last_request_time,  \* self._last_request_time
    cache,              \* the files of cache_dir: cache key -> raw body
    now,                \* time.monotonic(), in ticks of one second
    live,               \* per cache key, what the fetch that wrote the entry returned
    last_call,          \* when the last network call of this client started (-1: none yet)
    \* ---- scrape.main and scrape_session (scrape.py) ----
    pc,                 \* where main is: "idle", "discover", "start", "step", "done",
                        \* "written", "listed" (main returned after --list-sessions),
                        \* or "exit" (SystemExit) and "crashed" (an exception left main)
    sessions,           \* the sessions still to walk, the current one first
    max_qno,            \* args.max_qno
    args,               \* args.sessions, args.list_sessions, args.resume
    site,               \* what the site serves: the landing page and a page per step
    sid,                \* the session identifier read from the landing page
    start_time,         \* the start-time token of the session
    idx,                \* the step index of the for loop
    attempts,           \* the attempts counter of the while loop
    carry,              \* q_param, r_param, c_param, result_value
    log,                \* the warnings printed: [warn] qno=... still config after retries
    trace,              \* per step attempt so far: what was sent and what came of it
    \* ---- a second QuestionStore, and the files a writer and a reader share ----
    other_sequence,     \* _sequence_per_year of a second QuestionStore
    fs,                 \* the directory of the corpus: path -> text of the file
    writer,             \* the call that persists a corpus, and how far it is
    observed,           \* what the last read of the corpus path saw
    \* ---- what the last operation was, what it returned, what it started from ----
    lastOp,
    ret

storeVars == <<seed, by_id, sequence_per_year, prefer_new, added, replaced, skipped, outFile>>
clientVars == <<cache_enabled, throttle_seconds, max_retries, last_request_time, cache, now,
                live, last_call>>
walkVars == <<pc, sessions, max_qno, args, site, sid, start_time, idx, attempts, carry, log, trace>>
auxVars == <<other_sequence, fs, writer, observed>>
vars == <<seed, by_id, sequence_per_year, prefer_new, added, replaced, skipped, outFile,
          cache_enabled, throttle_seconds, max_retries, last_request_time, cache, now,
          live, last_call,
          pc, sessions, max_qno, args, site, sid, start_time, idx, attempts, carry, log, trace,
          other_sequence, fs, writer, observed,
          lastOp, ret>>

-----------------------------------------------------------------------------
(* Bounds of the model *)

\* calls of add_question in one behaviour of the store
MaxAdds == 2
\* calls of next_sequence per year in one behaviour of the store
MaxSeq == 2

-----------------------------------------------------------------------------
(* Python values *)

None == <<"None">>
NoFile == [nofile |-> TRUE]
ValidationError == "ValidationError"

\* what a call gives back: the value it returns, or the exception it raises
Return(v) == [exc |-> "", val |-> v]
Raise(e) == [exc |-> e, val |-> None]
Returned(r, v) == r.exc = "" /\ r.val = v

IsStr(v) == v # None

Max(a, b) == IF a >= b THEN a ELSE b

\* A str is a sequence of characters.  A printable ASCII character and \t, \n,
\* \f, \r are written as they are.  Any other character is a piece named by its
\* code point in four to six hexadecimal digits ("U+00A0", "U+3000"), or by its
\* reading for the characters of the site ("dai" "mon" for 第 問, "A" "I" "U"
\* "E" for ア イ ウ エ, "reiwa" "heisei" "showa" for the era names 令和 平成 昭和,
\* which are two characters each, "nen" "haru" for 年 春).

HexDigits == "0123456789ABCDEF"

\* int(h, 16) for a str of hexadecimal digits
RECURSIVE HexToInt(_)
HexToInt(h) ==
    IF h = "" THEN 0
    ELSE 16 * HexToInt(SubSeq(h, 1, Len(h) - 1))
         + (CHOOSE i \in 1..Len(HexDigits) : SubSeq(HexDigits, i, i) = SubSeq(h, Len(h), Len(h))) - 1

\* the hexadecimal digits of a number
RECURSIVE IntToHex(_)
IntToHex(n) ==
    IF n < 16 THEN SubSeq(HexDigits, n + 1, n + 1)
    ELSE IntToHex(n \div 16) \o SubSeq(HexDigits, (n % 16) + 1, (n % 16) + 1)

\* chr(cp) as the piece that names it
CodePiece(cp) ==
    "U+" \o (IF cp < 16 THEN "000" ELSE IF cp < 256 THEN "00" ELSE IF cp < 4096 THEN "0" ELSE "")
         \o IntToHex(cp)

\* the code points that are written as pieces: the control characters but for
\* \t, \n, \f, \r, U+007F, and all from U+0080 on but for the surrogates
PieceCodes(cp) ==
    \/ 0 <= cp /\ cp < 32 /\ cp \notin {9, 10, 12, 13}
    \/ cp = 127
    \/ 128 <= cp /\ cp < 55296
    \/ 57344 <= cp /\ cp < 1114112

\* c is the piece that names a character by its code point
IsCodePiece(c) ==
    /\ Len(c) \in 6..8
    /\ SubSeq(c, 1, 2) = "U+"
    /\ \A i \in 3..Len(c) : \E k \in 1..Len(HexDigits) : SubSeq(HexDigits, k, k) = SubSeq(c, i, i)
    /\ PieceCodes(HexToInt(SubSeq(c, 3, Len(c))))
    /\ c = CodePiece(HexToInt(SubSeq(c, 3, Len(c))))

\* ord(c) of a character written as the piece of its code point; -1 for any
\* other character and for the pieces of the site
Ord(c) == IF IsCodePiece(c) THEN HexToInt(SubSeq(c, 3, Len(c))) ELSE -1

\* the code points of a piece that stands for characters of the site; the
\* empty list for any other character
PieceCodePoints(c) ==
    CASE c = "dai" -> <<\h7B2C>> [] c = "mon" -> <<\h554F>> [] c = "A" -> <<\h30A2>>
      [] c = "I" -> <<\h30A4>> [] c = "U" -> <<\h30A6>> [] c = "E" -> <<\h30A8>>
      [] c = "reiwa" -> <<\h4EE4, \h548C>> [] c = "heisei" -> <<\h5E73, \h6210>>
      [] c = "showa" -> <<\h662D, \h548C>> [] c = "nen" -> <<\h5E74>> [] c = "haru" -> <<\h6625>>
      [] OTHER -> <<>>

\* the code points that a character or piece outside ASCII stands for; the
\* empty list for an ASCII character
CodePoints(c) ==
    IF PieceCodePoints(c) # <<>> THEN PieceCodePoints(c)
    ELSE IF Ord(c) >= 128 THEN <<Ord(c)>>
    ELSE <<>>

\* the characters str.strip() removes (those for which str.isspace is true):
\* the blank, \t, \n, \r, \f, the vertical tab U+000B, the separators U+001C to
\* U+001F, the next-line U+0085, the no-break space U+00A0, and U+1680, U+2000
\* to U+200A, U+2028, U+2029, U+202F, U+205F, U+3000
Whitespace ==
    {" ", "\t", "\n", "\r", "\f", "U+000B", "U+001C", "U+001D", "U+001E", "U+001F",
     "U+0085", "U+00A0", "U+1680", "U+2000", "U+2001", "U+2002", "U+2003", "U+2004",
     "U+2005", "U+2006", "U+2007", "U+2008", "U+2009", "U+200A",
     "U+2028", "U+2029", "U+202F", "U+205F", "U+3000"}

RECURSIVE LStrip(_)
LStrip(s) == IF s # <<>> /\ Head(s) \in Whitespace THEN LStrip(Tail(s)) ELSE s

RECURSIVE RStrip(_)
RStrip(s) ==
    IF s # <<>> /\ s[Len(s)] \in Whitespace THEN RStrip(SubSeq(s, 1, Len(s) - 1)) ELSE s

\* str.strip()
Strip(s) == RStrip(LStrip(s))

DigitChars == <<"0", "1", "2", "3", "4", "5", "6", "7", "8", "9">>

\* str(n) for n >= 0
RECURSIVE IntToChars(_)
IntToChars(n) ==
    IF n < 10 THEN <<DigitChars[n + 1]>>
    ELSE IntToChars(n \div 10) \o <<DigitChars[(n % 10) + 1]>>

\* the format specification 0{width}d
RECURSIVE ZeroPad(_, _)
ZeroPad(s, width) == IF Len(s) >= width THEN s ELSE ZeroPad(<<"0">> \o s, width)

\* an id whose sequence number is not padded to three digits
stable_question_id_unpadded(year, sequence) ==
    <<"a", "p", "-">> \o IntToChars(year) \o <<"-", "q">> \o IntToChars(sequence)

\* parser.stable_question_id: f"ap-{year}-q{sequence:03d}"
stable_question_id(year, sequence) ==
    <<"a", "p", "-">> \o IntToChars(year) \o <<"-", "q">> \o ZeroPad(IntToChars(sequence), 3)

-----------------------------------------------------------------------------
(* The insertion-ordered dict of Python *)

DictKeys(d) == {d[i].k : i \in 1..Len(d)}
DictHas(d, key) == key \in DictKeys(d)
DictIndex(d, key) == CHOOSE i \in 1..Len(d) : d[i].k = key
DictGet(d, key) == d[DictIndex(d, key)].v
\* d[key] = value: a present key keeps its position, a new key goes last
DictSet(d, key, value) ==
    IF DictHas(d, key)
    THEN [d EXCEPT ![DictIndex(d, key)] = [k |-> key, v |-> value]]
    ELSE Append(d, [k |-> key, v |-> value])
\* list(d.values())
DictValues(d) == [i \in 1..Len(d) |-> d[i].v]

-----------------------------------------------------------------------------
(* Records *)

RequiredKeys ==
    {"id", "category", "year", "text", "choices", "answerIndex", "explanation", "sourceUrl"}

\* q.get(key)
Get(q, key) == IF key \in DOMAIN q THEN q[key] ELSE None

\* storage.validate_question: TRUE when it returns, FALSE when it raises
\* ValidationError.  The year and the answerIndex of a record of the model are
\* integers, the choices a list.
validate_question(q) ==
    /\ RequiredKeys \subseteq DOMAIN q
    /\ q.choices # <<>>
    /\ \A i \in 1..Len(q.choices) : q.choices[i] # None /\ Strip(q.choices[i]) # <<>>
    /\ 0 <= q.answerIndex
    /\ q.answerIndex < Len(q.choices)

\* storage.validate_seed on a seed whose "questions" is a list
validate_seed(questions) == \A i \in 1..Len(questions) : validate_question(questions[i])

-----------------------------------------------------------------------------
(* HttpClient *)

\* HttpClient.__init__ defaults: throttle_seconds=1.0, max_retries=5
default_throttle_seconds == 1
default_max_retries == 5

\* what time.monotonic() reads when the client is constructed: the clock of a
\* machine that has been up for longer than any throttle interval
StartClock == 10

\* HttpClient.__init__ at the clock reading `clock`, with cache_dir holding the
\* entries `cache_dir` (those an earlier run has left there)
NewClient(enabled, throttle, retries, clock, cache_dir) ==
    /\ cache_enabled = enabled
    /\ throttle_seconds = throttle
    /\ max_retries = retries
    /\ last_request_time = 0
    /\ cache = cache_dir
    /\ now = clock
    /\ live = <<>>
    /\ last_call = -1


\* Python values that a decoded body can be, each with its type: a str and an int
\* are never equal (the int is kept as its decimal digits)
PyStr(chars) == [t |-> "str", v |-> chars]
PyInt(n) == [t |-> "int", v |-> IntToChars(n)]

\* the zeros of the decimal digits of Unicode (category Nd) beyond ASCII: the
\* ten digits of a script follow one another from its zero on
DecimalZeros ==
    {\h0660, \h06F0, \h07C0, \h0966, \h09E6, \h0A66, \h0AE6, \h0B66,
      \h0BE6, \h0C66, \h0CE6, \h0D66, \h0DE6, \h0E50, \h0ED0, \h0F20,
      \h1040, \h1090, \h17E0, \h1810, \h1946, \h19D0, \h1A80, \h1A90,
      \h1B50, \h1BB0, \h1C40, \h1C50, \hA620, \hA8D0, \hA900, \hA9D0,
      \hA9F0, \hAA50, \hABF0, \hFF10, \h104A0, \h10D30, \h11066, \h110F0,
      \h11136, \h111D0, \h112F0, \h11450, \h114D0, \h11650, \h116C0, \h11730,
      \h118E0, \h11950, \h11C50, \h11D50, \h11DA0, \h16A60, \h16AC0, \h16B50,
      \h1D7CE, \h1D7D8, \h1D7E2, \h1D7EC, \h1D7F6, \h1E140, \h1E2F0, \h1E950,
      \h1FBF0}

\* the one element of a set of at most one, `otherwise` when it has none
TheOne(S, otherwise) == IF S = {} THEN otherwise ELSE CHOOSE v \in S : TRUE

\* the value of the decimal digit with the code point cp; -1 when it is none
DecimalAt(cp) == TheOne({cp - zero : zero \in DecimalZeros} \cap 0..9, -1)

\* the value of a decimal digit, ASCII or of another script; -1 for any other
\* character
DecimalValue(c) == TheOne({d - 1 : d \in {d \in 1..10 : DigitChars[d] = c}}, DecimalAt(Ord(c)))

\* the fullwidth digits, in the order of their values
FullwidthDigits ==
    <<"U+FF10", "U+FF11", "U+FF12", "U+FF13", "U+FF14", "U+FF15", "U+FF16", "U+FF17", "U+FF18", "U+FF19">>

\* a character that is a decimal digit: the class \d of a str pattern
IsDigitChar(c) == DecimalValue(c) >= 0

\* the characters that have the digit property without being decimal digits,
\* as the ranges of their code points: the superscripts (U+00B2, U+00B3,
\* U+00B9, U+2070, U+2074 on), the subscripts (U+2080 on), the circled and
\* parenthesized digits and the others
OtherDigitRanges ==
    <<<<\h00B2, \h00B3>>, <<\h00B9, \h00B9>>, <<\h1369, \h1371>>, <<\h19DA, \h19DA>>,
      <<\h2070, \h2070>>, <<\h2074, \h2079>>, <<\h2080, \h2089>>, <<\h2460, \h2468>>,
      <<\h2474, \h247C>>, <<\h2488, \h2490>>, <<\h24EA, \h24EA>>, <<\h24F5, \h24FD>>,
      <<\h24FF, \h24FF>>, <<\h2776, \h277E>>, <<\h2780, \h2788>>, <<\h278A, \h2792>>,
      <<\h10A40, \h10A43>>, <<\h10E60, \h10E68>>, <<\h11052, \h1105A>>, <<\h1F100, \h1F10A>>>>
IsOtherDigit(c) ==
    \E k \in 1..Len(OtherDigitRanges) :
        OtherDigitRanges[k][1] <= Ord(c) /\ Ord(c) <= OtherDigitRanges[k][2]

\* str.isdecimal: a non-empty str of decimal digits, which is what int() takes
\* as a number without sign and underscores
IsDecimal(s) == s # <<>> /\ \A i \in 1..Len(s) : IsDigitChar(s[i])

\* a non-empty str of the ten ASCII digits
AsciiDigits == {"0", "1", "2", "3", "4", "5", "6", "7", "8", "9"}
IsAsciiDecimal(s) == s # <<>> /\ \A i \in 1..Len(s) : s[i] \in AsciiDigits

\* str.isdigit: every character is a digit, and there is at least one
IsDigit(s) ==
    /\ s # <<>>
    /\ \A i \in 1..Len(s) :
          IsDigitChar(s[i]) \/ IsOtherDigit(s[i])

\* int(s) for a str of decimal digits
RECURSIVE CharsToInt(_)
CharsToInt(s) ==
    IF s = <<>> THEN 0
    ELSE 10 * CharsToInt(SubSeq(s, 1, Len(s) - 1)) + DecimalValue(s[Len(s)])

\* the blanks int() drops around a literal: those of str.strip() but for the
\* separators U+001C to U+001F
IntWhitespace == Whitespace \ {"U+001C", "U+001D", "U+001E", "U+001F"}

RECURSIVE IntLStrip(_)
IntLStrip(s) == IF s # <<>> /\ Head(s) \in IntWhitespace THEN IntLStrip(Tail(s)) ELSE s

RECURSIVE IntRStrip(_)
IntRStrip(s) ==
    IF s # <<>> /\ s[Len(s)] \in IntWhitespace
    THEN IntRStrip(SubSeq(s, 1, Len(s) - 1)) ELSE s

\* int(s) for a str: blanks around the literal are dropped, a sign may lead,
\* and single underscores may stand between decimal digits; ValueError for
\* any other text, a superscript or subscript digit included
py_int(s) ==
    LET t == IntRStrip(IntLStrip(s))
        signed == t # <<>> /\ t[1] \in {"+", "-"}
        u == IF signed THEN Tail(t) ELSE t
        digits == SelectSeq(u, LAMBDA c : c # "_")
        grouped ==
            /\ u # <<>>
            /\ u[1] # "_"
            /\ u[Len(u)] # "_"
            /\ \A i \in 1..Len(u) - 1 : ~(u[i] = "_" /\ u[i + 1] = "_")
    IN  IF grouped /\ IsDecimal(digits)
        THEN Return(IF signed /\ t[1] = "-" THEN 0 - CharsToInt(digits) ELSE CharsToInt(digits))
        ELSE Raise("ValueError")

\* the blanks json.loads skips around a value: space, \t, \n and \r only
JsonWhitespace == {" ", "\t", "\n", "\r"}

RECURSIVE JsonLStrip(_)
JsonLStrip(s) == IF s # <<>> /\ Head(s) \in JsonWhitespace THEN JsonLStrip(Tail(s)) ELSE s

RECURSIVE JsonRStrip(_)
JsonRStrip(s) ==
    IF s # <<>> /\ s[Len(s)] \in JsonWhitespace
    THEN JsonRStrip(SubSeq(s, 1, Len(s) - 1)) ELSE s

\* json.loads on the documents of the model: a JSON document is an integer
\* literal of ASCII digits without a leading zero, with optional JSON blanks
\* around it; any other text is no JSON
json_loads(s) ==
    LET t == JsonRStrip(JsonLStrip(s)) IN
    IF IsAsciiDecimal(t) /\ (Len(t) = 1 \/ t[1] # "0")
    THEN Return(PyInt(CharsToInt(t)))
    ELSE Raise("JSONDecodeError")

\* HttpClient._decode_cached: JSON when the bytes parse as JSON, the text otherwise
decode_cached(data) ==
    IF json_loads(data).exc = "" THEN json_loads(data).val ELSE PyStr(data)

\* "application/json" in ctype, for the content types of the model
IsJsonType(ctype) == ctype \in {"application/json", "application/json; charset=utf-8"}

\* the UTF-8 bytes of the code point cp (from U+0080 on), each read as the
\* ISO-8859-1 character of its value (chr of a byte from 128 to 255)
Utf8AsLatin1(cp) ==
    IF cp < 2048
    THEN <<CodePiece(192 + (cp \div 64)), CodePiece(128 + (cp % 64))>>
    ELSE IF cp < 65536
    THEN <<CodePiece(224 + (cp \div 4096)), CodePiece(128 + ((cp \div 64) % 64)),
           CodePiece(128 + (cp % 64))>>
    ELSE <<CodePiece(240 + (cp \div 262144)), CodePiece(128 + ((cp \div 4096) % 64)),
           CodePiece(128 + ((cp \div 64) % 64)), CodePiece(128 + (cp % 64))>>

\* the same for the code points of a list, one after the other
RECURSIVE Utf8AsLatin1All(_)
Utf8AsLatin1All(cps) ==
    IF cps = <<>> THEN <<>> ELSE Utf8AsLatin1(Head(cps)) \o Utf8AsLatin1All(Tail(cps))

\* bytes.decode("ISO-8859-1") of a body sent as UTF-8: an ASCII character reads
\* as itself, any other as one character for each of its bytes
RECURSIVE decode_latin1(_)
decode_latin1(body) ==
    IF body = <<>> THEN <<>>
    ELSE LET cps == CodePoints(Head(body)) IN
         (IF cps = <<>> THEN <<Head(body)>> ELSE Utf8AsLatin1All(cps))
         \o decode_latin1(Tail(body))

\* requests.utils.get_encoding_from_headers, for the content types of the
\* model: the charset parameter when there is one, ISO-8859-1 for a text type
\* without one, utf-8 for application/json without one, else none (requests
\* then takes the encoding it detects)
get_encoding_from_headers(ctype) ==
    IF ctype \in {"text/html; charset=utf-8", "application/json; charset=utf-8"} THEN "utf-8"
    ELSE IF ctype \in {"text/html", "text/plain"} THEN "ISO-8859-1"
    ELSE IF ctype = "application/json" THEN "utf-8"
    ELSE "None"

\* HttpClient._decode_response: resp.json() when the Content-Type says JSON
\* (which raises when the body is none), resp.text otherwise, which decodes the
\* body with the encoding of the headers
decode_response(resp) ==
    IF IsJsonType(resp.ctype) THEN json_loads(resp.body)
    ELSE IF get_encoding_from_headers(resp.ctype) = "ISO-8859-1"
    THEN Return(PyStr(decode_latin1(resp.body)))
    ELSE Return(PyStr(resp.body))

\* the order of the characters that keys are made of
CharOrder == <<"\"", "-", "0", "1", "2", "3", "4", "5", "6", "7", "8", "9", "_", "a", "b",
               "c", "p", "q", "r", "s", "u">>
CharRank(c) == CHOOSE i \in 1..Len(CharOrder) : CharOrder[i] = c

\* a < b for two str of these characters
RECURSIVE StrLess(_, _)
StrLess(a, b) ==
    IF b = <<>> THEN FALSE
    ELSE IF a = <<>> THEN TRUE
    ELSE IF Head(a) # Head(b) THEN CharRank(Head(a)) < CharRank(Head(b))
    ELSE StrLess(Tail(a), Tail(b))

\* sorted(d.items()) of a dict given as a sequence of [k, v]
RECURSIVE SortedItems(_)
SortedItems(d) ==
    IF d = <<>> THEN <<>>
    ELSE LET m == CHOOSE i \in 1..Len(d) : \A j \in 1..Len(d) : ~StrLess(d[j].k, d[i].k)
         IN <<d[m]>> \o SortedItems(SubSeq(d, 1, m - 1) \o SubSeq(d, m + 1, Len(d)))

HexChars16 == <<"0", "1", "2", "3", "4", "5", "6", "7", "8", "9", "a", "b", "c", "d", "e", "f">>

\* the escape \uXXXX of a number up to 65535
UEscape16(n) ==
    <<"\\", "u", HexChars16[((n \div 4096) % 16) + 1], HexChars16[((n \div 256) % 16) + 1],
      HexChars16[((n \div 16) % 16) + 1], HexChars16[(n % 16) + 1]>>

\* the escape of a code point: \uXXXX, and the two escapes of its surrogate
\* pair beyond U+FFFF
UEscape(cp) ==
    IF cp < 65536 THEN UEscape16(cp)
    ELSE UEscape16(55296 + ((cp - 65536) \div 1024)) \o UEscape16(56320 + ((cp - 65536) % 1024))

RECURSIVE UEscapeAll(_)
UEscapeAll(cps) == IF cps = <<>> THEN <<>> ELSE UEscape(Head(cps)) \o UEscapeAll(Tail(cps))

\* the code of an ASCII character that json.dumps writes as \u00XX: a control
\* character or U+007F; -1 for any other character
ControlCode(c) == IF Ord(c) < 128 THEN Ord(c) ELSE -1

\* what json.dumps (ensure_ascii as by default) writes for a character of a
\* str: the quote and the backslash behind a backslash, the short escapes of
\* \n, \r, \t, \f and \b, \uXXXX for the other control characters, for U+007F
\* and for every character outside ASCII, the character itself otherwise
JsonEscape(c) ==
    IF c = "\"" THEN <<"\\", "\"">>
    ELSE IF c = "\\" THEN <<"\\", "\\">>
    ELSE IF c = "\n" THEN <<"\\", "n">>
    ELSE IF c = "\r" THEN <<"\\", "r">>
    ELSE IF c = "\t" THEN <<"\\", "t">>
    ELSE IF c = "\f" THEN <<"\\", "f">>
    ELSE IF c = "U+0008" THEN <<"\\", "b">>
    ELSE IF ControlCode(c) >= 0 THEN UEscape(ControlCode(c))
    ELSE IF CodePoints(c) # <<>> THEN UEscapeAll(CodePoints(c))
    ELSE <<c>>

\* the str between the quotes of a JSON string
RECURSIVE JsonEscapeAll(_)
JsonEscapeAll(str) ==
    IF str = <<>> THEN <<>> ELSE JsonEscape(Head(str)) \o JsonEscapeAll(Tail(str))

RECURSIVE DumpItems(_)
DumpItems(items) ==
    IF items = <<>> THEN <<>>
    ELSE <<"\"">> \o JsonEscapeAll(items[1].k) \o <<"\"", ":", " ", "\"">>
         \o JsonEscapeAll(items[1].v) \o <<"\"">>
         \o (IF Len(items) > 1 THEN <<",", " ">> ELSE <<>>) \o DumpItems(Tail(items))

\* json.dumps(d, sort_keys=True) of a dict of str to str
json_dumps_sorted(d) == <<"{">> \o DumpItems(SortedItems(d)) \o <<"}">>

\* json.dumps(d) of a dict of str to str: the entries in the order of the dict
json_dumps(d) == <<"{">> \o DumpItems(d) \o <<"}">>

\* a dict-valued field of a request that was not given (None)
NoDict == <<[none |-> TRUE]>>

\* HttpClient._hash_key: the SHA-256 of the url, then of the dumped params and
\* json_body when they are truthy (neither None nor empty).  The digest is
\* modelled as the hashed text itself behind a tag: equal texts give equal
\* digests, different texts different ones.
hash_key(config) ==
    <<"sha256:">> \o config.url
        \o (IF config.params # NoDict /\ config.params # <<>>
            THEN json_dumps_sorted(config.params) ELSE <<>>)
        \o (IF config.json_body # NoDict /\ config.json_body # <<>>
            THEN json_dumps_sorted(config.json_body) ELSE <<>>)

\* HttpClient._cache_path: config.cache_key or self._hash_key(config)
cache_path(config) ==
    IF config.cache_key # None /\ config.cache_key # <<>>
    THEN config.cache_key
    ELSE hash_key(config)

\* HttpClient._throttle at time t: the time it returns at, which is also the new
\* _last_request_time
throttle(throttle_s, last, t) ==
    LET sleep_for == throttle_s - (t - last) IN
    IF sleep_for > 0 THEN t + sleep_for ELSE t

\* an attempt's outcome o (a response, or the exception o.exc of the transport)
\* is one the loop retries
Retryable(o) ==
    \/ o.exc \in {"Timeout", "ConnectionError"}
    \/ o.exc = "" /\ (o.status = 429 \/ (500 <= o.status /\ o.status < 600))

\* Response.raise_for_status raises HTTPError: for the statuses 400 to 599
raise_for_status(status) == 400 <= status /\ status < 600

\* resp.request.body: the body requests sent, which is the data when there is
\* some (a form as the pairs it encodes), else the dumped json_body when one was
\* given, else none
request_body(config) ==
    IF config.data # None /\ config.data # <<>> THEN config.data
    ELSE IF config.json_body # NoDict THEN json_dumps(config.json_body)
    ELSE None

\* a retry loop that waits the base delay before every retry instead of doubling it
RECURSIVE request_with_retry_flat(_, _, _, _, _, _)
request_with_retry_flat(retries, script, attempt, backoff, t, calls) ==
    LET n == attempt + 1
        o == script[n]
        started == Append(calls, t)
        t1 == t + o.dur
    IN  IF Retryable(o)
        THEN IF n >= retries
             THEN [ret |-> Raise(IF o.exc # "" THEN o.exc ELSE "TemporaryError"),
                   t |-> t1, calls |-> started]
             ELSE request_with_retry_flat(retries, script, n, backoff, t1 + backoff, started)
        ELSE IF o.exc # ""
             THEN [ret |-> Raise(o.exc), t |-> t1, calls |-> started]
        ELSE IF raise_for_status(o.status)
             THEN [ret |-> Raise("HTTPError"), t |-> t1, calls |-> started]
             ELSE [ret |-> Return(o), t |-> t1, calls |-> started]

\* HttpClient._request_with_retry from attempt number `attempt`, at time t, against
\* a server that answers the k-th attempt with script[k] after script[k].dur
\* ticks: what it returns or raises, the time it ends at, the start times of the
\* network calls it made and the outcomes it saw
RECURSIVE request_with_retry(_, _, _, _, _, _)
request_with_retry(retries, script, attempt, backoff, t, calls) ==
    LET n == attempt + 1
        o == script[n]
        started == Append(calls, t)
        t1 == t + o.dur
    IN  IF Retryable(o)
        THEN IF n >= retries
             THEN [ret |-> Raise(IF o.exc # "" THEN o.exc ELSE "TemporaryError"),
                   t |-> t1, calls |-> started]
             ELSE request_with_retry(retries, script, n, backoff * 2, t1 + backoff, started)
        ELSE IF o.exc # ""
             THEN [ret |-> Raise(o.exc), t |-> t1, calls |-> started]
        ELSE IF raise_for_status(o.status)
             THEN [ret |-> Raise("HTTPError"), t |-> t1, calls |-> started]
             ELSE [ret |-> Return(o), t |-> t1, calls |-> started]

\* a client that throttles before it looks into the cache
fetch_throttle_first(config, script, enabled, throttle_s, retries, last, ch, t) ==
    LET key == cache_path(config) IN
    IF enabled /\ DictHas(ch, key)
    THEN LET content == decode_cached(DictGet(ch, key)) IN
         [ret |-> Return(IF config.return_response
                         THEN [status |-> 200, content |-> content, body |-> None]
                         ELSE content),
          last |-> throttle(throttle_s, last, t), cache |-> ch,
          t |-> throttle(throttle_s, last, t), calls |-> <<>>, hit |-> TRUE, key |-> key]
    ELSE LET t0 == throttle(throttle_s, last, t)
             r == request_with_retry(retries, script, 0, 1, t0, <<>>)
         IN  IF r.ret.exc # ""
             THEN [ret |-> r.ret, last |-> t0, cache |-> ch, t |-> r.t, calls |-> r.calls,
                   hit |-> FALSE, key |-> key]
             ELSE LET resp == r.ret.val
                      ch2 == IF enabled THEN DictSet(ch, key, resp.body) ELSE ch
                      decoded == decode_response(resp)
                  IN [ret |-> IF decoded.exc # "" THEN decoded
                              ELSE Return(IF config.return_response
                                          THEN [status |-> resp.status,
                                                content |-> decoded.val,
                                                body |-> request_body(config)]
                                          ELSE decoded.val),
                      last |-> t0, cache |-> ch2, t |-> r.t, calls |-> r.calls,
                      hit |-> FALSE, key |-> key]

\* HttpClient.fetch at time t of a client with the given settings, throttle
\* clock `last` and cache `ch`
fetch(config, script, enabled, throttle_s, retries, last, ch, t) ==
    LET key == cache_path(config) IN
    IF enabled /\ DictHas(ch, key)
    THEN LET content == decode_cached(DictGet(ch, key)) IN
         [ret |-> Return(IF config.return_response
                         THEN [status |-> 200, content |-> content, body |-> None]
                         ELSE content),
          last |-> last, cache |-> ch, t |-> t, calls |-> <<>>, hit |-> TRUE, key |-> key]
    ELSE LET t0 == throttle(throttle_s, last, t)
             r == request_with_retry(retries, script, 0, 1, t0, <<>>)
         IN  IF r.ret.exc # ""
             THEN [ret |-> r.ret, last |-> t0, cache |-> ch, t |-> r.t, calls |-> r.calls,
                   hit |-> FALSE, key |-> key]
             ELSE LET resp == r.ret.val
                      ch2 == IF enabled THEN DictSet(ch, key, resp.body) ELSE ch
                      decoded == decode_response(resp)
                  IN [ret |-> IF decoded.exc # "" THEN decoded
                              ELSE Return(IF config.return_response
                                          THEN [status |-> resp.status,
                                                content |-> decoded.val,
                                                body |-> request_body(config)]
                                          ELSE decoded.val),
                      last |-> t0, cache |-> ch2, t |-> r.t, calls |-> r.calls,
                      hit |-> FALSE, key |-> key]

-----------------------------------------------------------------------------
(* QuestionStore *)

\* no second store and no writer at work
NoAux ==
    /\ other_sequence = <<>>
    /\ fs = <<>>
    /\ writer = <<>>
    /\ observed = <<>>

\* no session is being walked: the store or the client is driven on its own
NoWalk ==
    /\ pc = "idle"
    /\ sessions = <<>>
    /\ max_qno = 0
    /\ args = [sessions |-> <<>>, list_sessions |-> FALSE, resume |-> FALSE]
    /\ site = <<>>
    /\ sid = None
    /\ start_time = None
    /\ idx = 0
    /\ attempts = 0
    /\ carry = <<>>
    /\ log = <<>>
    /\ trace = <<>>

\* QuestionStore.all_questions: list(self._by_id.values())
all_questions(d) == DictValues(d)

\* the loop of QuestionStore.__init__ and load_existing over the loaded questions:
\* a question enters _by_id under its id as it stands when the id is a non-empty str
RECURSIVE IndexById(_, _)
IndexById(questions, d) ==
    IF questions = <<>> THEN d
    ELSE LET q == Head(questions)
             qid == Get(q, "id")
         IN IndexById(Tail(questions),
                      IF IsStr(qid) /\ qid # <<>> THEN DictSet(d, qid, q) ELSE d)

\* QuestionStore.to_seed: the ids of the loaded questions still in _by_id, in file
\* order, then the keys of _by_id that are not among them
to_seed(sd, d) ==
    LET qs == sd.questions
        kept == SelectSeq([i \in 1..Len(qs) |-> Get(qs[i], "id")],
                          LAMBDA qid : IsStr(qid) /\ DictHas(d, qid))
        existing_ids == {kept[i] : i \in 1..Len(kept)}
        all_ids == [i \in 1..Len(d) |-> d[i].k]
        new_ids == SelectSeq(all_ids, LAMBDA k : k \notin existing_ids)
    IN [version |-> sd.version,
        questions |-> [i \in 1..Len(kept) |-> DictGet(d, kept[i])]
                      \o [i \in 1..Len(new_ids) |-> DictGet(d, new_ids[i])]]

\* add_question with the duplicate branch lost: a present id is overwritten
\* whatever prefer_new says
add_question_overwrite(d, prefer, cnt, q) ==
    LET qid == Get(q, "id") IN
    IF ~IsStr(qid) \/ Strip(qid) = <<>>
    THEN [d |-> d, cnt |-> cnt, ret |-> Raise(ValidationError)]
    ELSE [d |-> DictSet(d, Strip(qid), q),
          cnt |-> [cnt EXCEPT !.added = @ + 1], ret |-> Return(TRUE)]

\* add_question whose replace takes the record out and puts the incoming one at
\* the end
add_question_move(d, prefer, cnt, q) ==
    LET qid == Get(q, "id") IN
    IF ~IsStr(qid) \/ Strip(qid) = <<>>
    THEN [d |-> d, cnt |-> cnt, ret |-> Raise(ValidationError)]
    ELSE LET key == Strip(qid) IN
         IF DictHas(d, key)
         THEN IF prefer
              THEN [d |-> Append(SelectSeq(d, LAMBDA e : e.k # key), [k |-> key, v |-> q]),
                    cnt |-> [cnt EXCEPT !.replaced = @ + 1], ret |-> Return(TRUE)]
              ELSE [d |-> d, cnt |-> [cnt EXCEPT !.skipped = @ + 1], ret |-> Return(FALSE)]
         ELSE [d |-> DictSet(d, key, q),
               cnt |-> [cnt EXCEPT !.added = @ + 1], ret |-> Return(TRUE)]

\* QuestionStore.add_question, as the values it leaves: the dict, the three
\* counters and what the call returns (ValidationError when it raises)
add_question(d, prefer, cnt, q) ==
    LET qid == Get(q, "id") IN
    IF ~IsStr(qid) \/ Strip(qid) = <<>>
    THEN [d |-> d, cnt |-> cnt, ret |-> Raise(ValidationError)]
    ELSE LET key == Strip(qid) IN
         IF DictHas(d, key)
         THEN IF prefer
              THEN [d |-> DictSet(d, key, q),
                    cnt |-> [cnt EXCEPT !.replaced = @ + 1], ret |-> Return(TRUE)]
              ELSE [d |-> d, cnt |-> [cnt EXCEPT !.skipped = @ + 1], ret |-> Return(FALSE)]
         ELSE [d |-> DictSet(d, key, q),
               cnt |-> [cnt EXCEPT !.added = @ + 1], ret |-> Return(TRUE)]

Counters == [added |-> added, replaced |-> replaced, skipped |-> skipped]

-----------------------------------------------------------------------------
(* The records and corpora the store is driven with *)

\* the years of two sessions
Years == <<2024, 2025>>
Year1 == Years[1]
Year2 == Years[2]

IdA == stable_question_id(Year1, 1)
IdB == stable_question_id(Year1, 2)

ChX == <<"x">>
ChY == <<"y">>
TextP == <<"P">>
TextQ == <<"Q">>

Mk(id, text, choices, answerIndex) ==
    [id |-> id, category |-> <<"c">>, year |-> Year1, text |-> text,
     choices |-> choices, answerIndex |-> answerIndex,
     explanation |-> <<>>, sourceUrl |-> <<"u">>]

\* ids as callers pass them: two ids of the scraper's format, and one of them
\* with surrounding blanks
InputIds == {IdA, IdB, <<" ">> \o IdA \o <<" ">>}

\* text, choices, answerIndex: a valid content, the same with another answer,
\* an unknown answer, and no text and no choices
InputContents ==
    {<<TextP, <<ChX, ChY>>, 0>>,
     <<TextP, <<ChX, ChY>>, 1>>,
     <<TextQ, <<ChX, ChY>>, -1>>,
     <<None, <<>>, -1>>}

\* the records add is called with; the last two have a blank id and no id
InputRecords ==
    {Mk(id, c[1], c[2], c[3]) : id \in InputIds, c \in InputContents}
    \cup {Mk(<<" ">>, TextP, <<ChX, ChY>>, 0), Mk(None, TextP, <<ChX, ChY>>, 0)}

\* corpora as a previous run left them
ExistingCorpora ==
    {[version |-> 1, questions |-> <<>>],
     [version |-> 1, questions |-> <<Mk(IdA, TextP, <<ChX, ChY>>, 0)>>],
     [version |-> 2, questions |-> <<Mk(IdB, TextQ, <<ChX, ChY>>, 1),
                                     Mk(IdA, TextP, <<ChX, ChY>>, 0)>>]}

-----------------------------------------------------------------------------
(* Operations of the store *)

StoreCalls == added + replaced + skipped

\* QuestionStore.add / add_question
Add(q) ==
    /\ StoreCalls < MaxAdds
    /\ LET r == add_question(by_id, prefer_new, Counters, q) IN
        /\ by_id' = r.d
        /\ added' = r.cnt.added
        /\ replaced' = r.cnt.replaced
        /\ skipped' = r.cnt.skipped
        /\ ret' = r.ret
    /\ lastOp' = [op |-> "add", q |-> q, pre |-> by_id]
    /\ UNCHANGED <<seed, sequence_per_year, prefer_new, outFile>>
    /\ UNCHANGED <<clientVars, walkVars, auxVars>>

\* QuestionStore.load_existing
LoadExisting(corpus) ==
    /\ seed' = corpus
    /\ by_id' = IndexById(corpus.questions, <<>>)
    /\ lastOp' = [op |-> "load_existing"]
    /\ ret' = Return(None)
    /\ UNCHANGED <<sequence_per_year, prefer_new, added, replaced, skipped, outFile>>
    /\ UNCHANGED <<clientVars, walkVars, auxVars>>

\* QuestionStore.next_sequence on the Counter: the counter it leaves and the
\* value it returns (a Counter reads 0 for a key it does not hold)
CounterGet(c, key) == IF key \in DOMAIN c THEN c[key] ELSE 0

\* a store that keeps one counter for all years
next_sequence_shared(c, year) ==
    LET n == CounterGet(c, year) + 1 IN
    [c |-> [y \in DOMAIN c \cup {year} |-> n], ret |-> n]

next_sequence(c, year) ==
    LET n == CounterGet(c, year) + 1 IN
    [c |-> [y \in DOMAIN c \cup {year} |-> IF y = year THEN n ELSE c[y]], ret |-> n]

\* the value each (store, year) last returned, 0 when it has returned none, as
\* the history of the calls keeps it
LastReturned == IF "last" \in DOMAIN lastOp THEN lastOp.last
                ELSE [k \in {1, 2} \X {Year1, Year2} |-> 0]

\* store.next_sequence(year) on the store
NextSequence(year) ==
    /\ CounterGet(sequence_per_year, year) < MaxSeq
    /\ sequence_per_year' = next_sequence(sequence_per_year, year).c
    /\ ret' = Return(next_sequence(sequence_per_year, year).ret)
    /\ lastOp' = [op |-> "next_sequence", store |-> 1, year |-> year,
                  prev |-> LastReturned[<<1, year>>],
                  pre |-> <<sequence_per_year, other_sequence>>,
                  last |-> [LastReturned EXCEPT ![<<1, year>>] =
                               next_sequence(sequence_per_year, year).ret]]
    /\ UNCHANGED <<seed, by_id, prefer_new, added, replaced, skipped, outFile>>
    /\ UNCHANGED <<clientVars, walkVars, auxVars>>

\* other.next_sequence(year) on a second QuestionStore of the same process
NextSequenceOther(year) ==
    /\ CounterGet(other_sequence, year) < MaxSeq
    /\ other_sequence' = next_sequence(other_sequence, year).c
    /\ ret' = Return(next_sequence(other_sequence, year).ret)
    /\ lastOp' = [op |-> "next_sequence", store |-> 2, year |-> year,
                  prev |-> LastReturned[<<2, year>>],
                  pre |-> <<sequence_per_year, other_sequence>>,
                  last |-> [LastReturned EXCEPT ![<<2, year>>] =
                               next_sequence(other_sequence, year).ret]]
    /\ UNCHANGED <<storeVars, clientVars, walkVars, fs, writer, observed>>

\* QuestionStore.save: validate_seed(to_seed()) and then write_seed
Save ==
    /\ lastOp' = [op |-> "save"]
    /\ LET s == to_seed(seed, by_id) IN
        IF validate_seed(s.questions)
        THEN outFile' = s /\ ret' = Return(None)
        ELSE outFile' = outFile /\ ret' = Raise(ValidationError)
    /\ UNCHANGED <<seed, by_id, sequence_per_year, prefer_new, added, replaced, skipped>>
    /\ UNCHANGED <<clientVars, walkVars, auxVars>>

\* scrape.main, lines 362-366: write_seed(out_path, version=1,
\* questions=store.all_questions()); write_seed builds the seed and hands it to
\* _write_seed_atomic_compat, and neither validates
write_seed(questions) == [version |-> 1, questions |-> questions]

WriteSeedMain ==
    /\ lastOp' = [op |-> "write_seed"]
    /\ outFile' = write_seed(all_questions(by_id))
    /\ ret' = Return(None)
    /\ UNCHANGED <<seed, by_id, sequence_per_year, prefer_new, added, replaced, skipped>>
    /\ UNCHANGED <<clientVars, walkVars, auxVars>>

\* QuestionStore.__init__ without resume (as scrape.main constructs it)
NewStore(prefer) ==
    /\ seed = [version |-> 1, questions |-> <<>>]
    /\ by_id = <<>>
    /\ sequence_per_year = <<>>
    /\ prefer_new = prefer
    /\ added = 0 /\ replaced = 0 /\ skipped = 0
    /\ outFile = NoFile

InitStore ==
    /\ \E prefer \in BOOLEAN : NewStore(prefer)
    /\ NewClient(TRUE, default_throttle_seconds, default_max_retries, StartClock, <<>>)
    /\ NoWalk
    /\ NoAux
    /\ lastOp = [op |-> "init"]
    /\ ret = Return(None)

\* the file a store resumes from: one a previous run left, or the one this run
\* has written
ResumeCorpora == ExistingCorpora \cup (IF outFile = NoFile THEN {} ELSE {outFile})

NextStore ==
    \/ \E q \in InputRecords : Add(q)
    \/ \E c \in ResumeCorpora : LoadExisting(c)
    \/ Save
    \/ WriteSeedMain

SpecStore == InitStore /\ [][NextStore]_vars

-----------------------------------------------------------------------------
(* The client on its own: fetches of two requests against a server whose answers *)
(* and delays are drawn                                                          *)

\* fetches in one behaviour of the client
MaxFetches == 2
\* the time the caller lets pass between two fetches is none or this, in ticks
MaxIdle == 1

BASE_URL == <<"u">>

\* RequestConfig: params and json_body are None unless given
Request(url, method, data, cache_key, return_response) ==
    [url |-> url, method |-> method, data |-> data, json_body |-> NoDict, params |-> NoDict,
     cache_key |-> cache_key, return_response |-> return_response]

\* the landing page request of scrape_session and a step request of
\* fetch_question_page, whose cache key is f"{sid}-{qno}"
GetLanding == Request(BASE_URL, "GET", None, None, FALSE)
PostStep(session_id, qno, data) ==
    Request(BASE_URL, "POST", data, session_id \o <<"-">> \o IntToChars(qno), TRUE)

\* a POST of a JSON body and no data, the response wanted with it
PostJson ==
    [Request(BASE_URL, "POST", None, None, TRUE)
        EXCEPT !.json_body = <<[k |-> <<"a">>, v |-> <<"1">>]>>]

FetchConfigs == {GetLanding, PostStep(<<"a", "1">>, 0, <<"d">>), PostJson}

Response(status, body, ctype, dur) ==
    [exc |-> "", status |-> status, body |-> body, ctype |-> ctype, dur |-> dur]
TransportError(exc, dur) ==
    [exc |-> exc, status |-> 0, body |-> <<>>, ctype |-> "", dur |-> dur]

HtmlBody == <<"<", "p", ">">>
NumberBody == <<"1", "2">>

Busy(dur) == Response(503, <<>>, "text/html", dur)
Page(dur) == Response(200, HtmlBody, "text/html", dur)

\* what the server does with the attempts of one fetch:
\*   k times 503 and then a page, answered at once; 503 to every attempt, or one
\*   503 and then a page, each answer after 0 or 1 tick;
\*   at once a 200 with a body and a content type of the model, a 404, or a 304
\*   (which requests hands back as it is: it has no Location to follow);
\*   once 429 or a timeout and then, when the cap allows another attempt, a page;
\*   at once a page with a status beyond 599, or an exception of the transport
\*   that is neither Timeout nor ConnectionError
Scripts(retries) ==
    {[i \in 1..k |-> Busy(0)] \o <<Page(0)>> : k \in 0..(retries - 1)}
    \cup {<<Busy(1), Page(1)>>}
    \cup {[i \in 1..retries |-> Busy(dur)] : dur \in 0..1}
    \cup {<<Response(200, b, c, 0)>> : b \in {HtmlBody, NumberBody},
                                       c \in {"text/html", "application/json"}}
    \cup {<<Response(st, <<>>, "text/html", 0)>> : st \in {304, 404}}
    \cup {<<f, Page(0)>> : f \in {Response(429, <<>>, "text/html", 0),
                                  TransportError("Timeout", 0)}}
    \cup {<<Response(600, HtmlBody, "text/html", 0)>>,
          <<TransportError("TooManyRedirects", 0)>>}

Content(config, r) == IF config.return_response THEN r.val.content ELSE r.val

FetchCount == IF lastOp.op = "fetch" THEN lastOp.n ELSE 0

\* one call of HttpClient.fetch, `idle` ticks after the previous operation
Fetch(config, script, idle) ==
    \E r \in {fetch(config, script, cache_enabled, throttle_seconds, max_retries,
                    last_request_time, cache, now + idle)} :
        /\ last_request_time' = r.last
        /\ cache' = r.cache
        /\ now' = r.t
        /\ live' = IF ~r.hit /\ DictHas(r.cache, r.key) THEN DictSet(live, r.key, r.ret)
                   ELSE live
        /\ last_call' = IF r.calls # <<>> THEN r.calls[Len(r.calls)] ELSE last_call
        /\ ret' = r.ret
        /\ lastOp' = [op |-> "fetch", n |-> FetchCount + 1, config |-> config,
                      key |-> r.key, hit |-> r.hit, calls |-> r.calls,
                      seen |-> SubSeq(script, 1, Len(r.calls)),
                      prev_call |-> last_call, at |-> now + idle,
                      pre_last |-> last_request_time, pre_cache |-> cache]
        /\ UNCHANGED <<cache_enabled, throttle_seconds, max_retries>>
        /\ UNCHANGED <<storeVars, walkVars, auxVars>>

\* the settings the client is constructed with: cache on or off, a throttle of
\* one or two seconds, a retry cap of 1 or the default
ThrottleChoices == {default_throttle_seconds, 2 * default_throttle_seconds}
RetryChoices == {1, default_max_retries}

\* what cache_dir holds when the client is constructed: nothing, or the entry
\* an earlier run wrote for the step request (looked at by a client with the
\* cache on, the default throttle and a retry cap of 1)
CacheDirs == {<<>>, <<[k |-> cache_path(PostStep(<<"a", "1">>, 0, <<"d">>)), v |-> NumberBody]>>}

InitFetch ==
    /\ NewStore(FALSE)
    /\ \E e \in BOOLEAN, th \in ThrottleChoices, mr \in RetryChoices, dir \in CacheDirs :
            /\ dir # <<>> => e /\ th = default_throttle_seconds /\ mr = 1
            /\ NewClient(e, th, mr, StartClock, dir)
    /\ NoWalk
    /\ NoAux
    /\ lastOp = [op |-> "init"]
    /\ ret = Return(None)

\* (the request with a JSON body is fetched by the clients without cache)
NextFetch ==
    /\ FetchCount < MaxFetches
    /\ \E config \in FetchConfigs, script \in Scripts(max_retries), idle \in {0, MaxIdle} :
            /\ config = PostJson => ~cache_enabled
            /\ Fetch(config, script, idle)

SpecFetch == InitFetch /\ [][NextFetch]_vars

-----------------------------------------------------------------------------
(* validate_question on its own: a record is drawn, then validated *)

\* the longest list of choices drawn
MaxChoices == 2

\* a choice, a blank one, one that is a no-break space, one that is an
\* ideographic space, and none
ChoiceValues == {ChX, <<" ">>, <<"U+00A0">>, <<"U+3000">>, None}

RECURSIVE SeqsUpTo(_, _)
SeqsUpTo(S, n) ==
    IF n = 0 THEN {<<>>}
    ELSE LET shorter == SeqsUpTo(S, n - 1) IN
         shorter \cup {Append(t, x) : t \in {u \in shorter : Len(u) = n - 1}, x \in S}

ValidateInputs ==
    {Mk(IdA, t, c, a) : t \in {TextP, None},
                        c \in SeqsUpTo(ChoiceValues, MaxChoices),
                        a \in -2..(MaxChoices + 1)}
    \cup {[k \in RequiredKeys \ {"explanation"} |-> Mk(IdA, TextP, <<ChX>>, 0)[k]]}

Validate ==
    /\ lastOp.op = "input"
    /\ lastOp' = [op |-> "validate", q |-> lastOp.q]
    /\ ret' = IF validate_question(lastOp.q) THEN Return(None) ELSE Raise(ValidationError)
    /\ UNCHANGED <<storeVars, clientVars, walkVars, auxVars>>

InitValidate ==
    /\ NewStore(FALSE)
    /\ NewClient(TRUE, default_throttle_seconds, default_max_retries, StartClock, <<>>)
    /\ NoWalk
    /\ NoAux
    /\ \E q \in ValidateInputs : lastOp = [op |-> "input", q |-> q]
    /\ ret = Return(None)

NextValidate == Validate

SpecValidate == InitValidate /\ [][NextValidate]_vars

-----------------------------------------------------------------------------
(* Pages.  A page is the text of its HTML, cut into the pieces the scraper   *)
(* looks at: an element is its opening piece, the characters of its value or *)
(* text, and the closing piece ">".  "dai" and "mon" stand for the characters *)
(* 第 and 問 of the step marker, "A" "I" "U" "E" for the labels ア イ ウ エ,  *)
(* "reiwa" "nen" "haru" for 令和, 年 and 春 in the label of a session.         *)

Field(name, value) == <<name>> \o value \o <<">">>

\* the first position from i on that holds the piece `name`, 0 when there is none
RECURSIVE FindFrom(_, _, _)
FindFrom(html, name, i) ==
    IF i > Len(html) THEN 0
    ELSE IF html[i] = name THEN i
    ELSE FindFrom(html, name, i + 1)

\* the characters from position i up to the closing piece
RECURSIVE ValueAt(_, _)
ValueAt(html, i) ==
    IF i > Len(html) \/ html[i] = ">" THEN <<>>
    ELSE <<html[i]>> \o ValueAt(html, i + 1)

\* soup.find / soup.select_one: the element is there; and its value or text
HasField(html, name) == FindFrom(html, name, 1) # 0
FieldValue(html, name) == ValueAt(html, FindFrom(html, name, 1) + 1)

\* pat in html
Contains(html, pat) ==
    \E i \in 1..(Len(html) - Len(pat) + 1) : SubSeq(html, i, i + Len(pat) - 1) = pat

HexChars == {"a", "b", "c", "d", "e", "f"} \cup {DigitChars[d] : d \in 1..10}

\* a start page without identifier is taken to give the empty identifier
extract_sid_lenient(html) ==
    IF ~HasField(html, "sid=") THEN Return(<<>>)
    ELSE Return(FieldValue(html, "sid="))

\* scrape.extract_sid: re.search(r'name="sid" value="([a-f0-9]+)"', html), and
\* SystemExit when nothing matches
extract_sid(html) ==
    LET Matches(i) ==
            LET v == ValueAt(html, i + 1) IN
            /\ html[i] = "sid="
            /\ v # <<>>
            /\ \A k \in 1..Len(v) : v[k] \in HexChars
            /\ i + Len(v) + 1 <= Len(html)
        hits == {i \in 1..Len(html) : Matches(i)}
    IN  IF hits = {} THEN Raise("SystemExit")
        ELSE Return(ValueAt(html, (CHOOSE i \in hits : \A j \in hits : i <= j) + 1))

\* the marker of handle_html and of the loop: f"第{idx+1}問"
Marker(i) == <<"dai">> \o IntToChars(i + 1) \o <<"mon">>

\* hidden inputs that are never found: the tokens of the page are lost
parse_hidden_params_blank(html) ==
    [q |-> <<>>, r |-> <<>>, c |-> <<>>, result |-> <<"-", "1">>]

\* scrape_session.parse_hidden_params
parse_hidden_params(html) ==
    [q |-> IF HasField(html, "_q=") THEN FieldValue(html, "_q=") ELSE <<>>,
     r |-> IF HasField(html, "_r=") THEN FieldValue(html, "_r=") ELSE <<>>,
     c |-> IF HasField(html, "_c=") THEN FieldValue(html, "_c=") ELSE <<>>,
     result |-> IF HasField(html, "result=") THEN FieldValue(html, "result=")
                ELSE <<"-", "1">>]

CHOICE_IDS == <<"select_a", "select_i", "select_u", "select_e">>
CHOICE_LABELS == <<"A", "I", "U", "E">>

\* parser._extract_choices on a page without list items, where the fallback
\* _extract_choices_from_list returns [] and the choices stay as first read
extract_choices(html) ==
    [k \in 1..Len(CHOICE_IDS) |->
        IF HasField(html, CHOICE_IDS[k]) THEN Strip(FieldValue(html, CHOICE_IDS[k]))
        ELSE <<>>]

\* parser._sanitize_choices from position k on, with the choices kept so far;
\* new_answer_index is -1 while it is None, which is also what is returned for it
RECURSIVE sanitize_from(_, _, _, _, _)
sanitize_from(choices, answer_index, k, cleaned, new_answer_index) ==
    IF k > Len(choices)
    THEN [choices |-> cleaned,
          answerIndex |-> new_answer_index]
    ELSE LET trimmed == Strip(choices[k]) IN
         IF trimmed = <<>>
         THEN sanitize_from(choices, answer_index, k + 1, cleaned, new_answer_index)
         ELSE sanitize_from(choices, answer_index, k + 1, Append(cleaned, trimmed),
                            IF k - 1 = answer_index THEN Len(cleaned)
                            ELSE new_answer_index)

sanitize_choices(choices, answer_index) == sanitize_from(choices, answer_index, 1, <<>>, -1)

\* value.split("_")[-1]
RECURSIVE LastPart(_)
LastPart(s) ==
    IF s = <<>> \/ s[Len(s)] = "_" THEN <<>>
    ELSE Append(LastPart(SubSeq(s, 1, Len(s) - 1)), s[Len(s)])

\* parser.extract_questions_from_html on a page without explanation, og:url and
\* category elements: no question when .selectList is missing, else one
\* question; ValueError when the last part of _q passes str.isdigit and int()
\* does not take it
extract_questions_from_html(html, session) ==
    IF ~HasField(html, ".selectList") THEN Return(<<>>)
    ELSE LET question_text == IF HasField(html, "qno=")
                              THEN Strip(FieldValue(html, "qno=")) ELSE None
             answer_char_text == IF HasField(html, "answerChar=")
                                 THEN Strip(FieldValue(html, "answerChar=")) ELSE <<>>
             answer_index ==
                 IF \E k \in 1..Len(CHOICE_LABELS) : answer_char_text = <<CHOICE_LABELS[k]>>
                 THEN (CHOOSE k \in 1..Len(CHOICE_LABELS) :
                            answer_char_text = <<CHOICE_LABELS[k]>>) - 1
                 ELSE -1
             clean == sanitize_choices(extract_choices(html), answer_index)
             last == IF HasField(html, "_q=") THEN LastPart(FieldValue(html, "_q=")) ELSE <<>>
             q_number == IF IsDigit(last) THEN py_int(last) ELSE Return(None)
             question_id == IF IsDigit(last) /\ q_number.exc = ""
                            THEN stable_question_id(session.year, q_number.val)
                            ELSE None
         IN IF q_number.exc # "" THEN q_number
            ELSE Return(<<[id |-> question_id, category |-> <<"unknown">>,
                           categoryPath |-> <<>>, year |-> session.year,
                           text |-> question_text, choices |-> clean.choices,
                           answerIndex |-> clean.answerIndex, explanation |-> <<>>,
                           sourceUrl |-> session.base_url]>>)

\* scrape.build_post_data: the pairs from options[] on (the fields[] and
\* categories[] pairs before them are the same in every request)
build_post_data(times_code, session_id, qno, start, q_param, r_param, c_param, result_value) ==
    <<[k |-> "times[]", v |-> times_code],
      [k |-> "options[]", v |-> <<"timesFilter">>],
      [k |-> "moshi", v |-> <<"mix_all">>],
      [k |-> "moshi_cnt", v |-> <<"4", "0">>],
      [k |-> "addition", v |-> <<"0">>],
      [k |-> "mode", v |-> <<"1">>],
      [k |-> "qno", v |-> IntToChars(qno)],
      [k |-> "sid", v |-> session_id],
      [k |-> "result", v |-> IF result_value # <<>> THEN result_value ELSE <<"-", "1">>],
      [k |-> "checkflag", v |-> <<"-", "1">>],
      [k |-> "startTime", v |-> start],
      [k |-> "_q", v |-> q_param],
      [k |-> "_r", v |-> r_param],
      [k |-> "_c", v |-> c_param]>>

\* the value sent under key k
Sent(data, k) == data[CHOOSE i \in 1..Len(data) : data[i].k = k].v

\* the loop of handle_html over the extracted questions: a question without an
\* id gets stable_question_id(session.year, store.next_sequence(session.year)),
\* then store.add(q); st is the store as it stands
RECURSIVE add_all(_, _, _)
add_all(questions, year, st) ==
    IF questions = <<>> \/ st.exc # "" THEN st
    ELSE LET q == Head(questions)
             ns == next_sequence(st.seq, year)
             synth == q.id = None
             q1 == IF synth THEN [q EXCEPT !.id = stable_question_id(year, ns.ret)] ELSE q
             r == add_question(st.d, st.prefer, st.cnt, q1)
         IN add_all(Tail(questions), year,
                    [d |-> r.d, prefer |-> st.prefer, cnt |-> r.cnt,
                     seq |-> IF synth THEN ns.c ELSE st.seq,
                     exc |-> r.ret.exc,
                     handed |-> Append(st.handed,
                                       [q |-> q1, synth |-> synth, ret |-> r.ret])])

\* scrape_session.handle_html (what it prints and saves for debugging left out);
\* an exception of the extractor leaves it with the store as it was
handle_html(html, i, session, st) ==
    IF ~Contains(html, Marker(i)) THEN st
    ELSE LET questions == extract_questions_from_html(html, session) IN
         IF questions.exc # "" THEN [st EXCEPT !.exc = questions.exc]
         ELSE add_all(questions.val, session.year, st)

-----------------------------------------------------------------------------
(* scrape.main: discover the sessions, walk each of them, write the corpus *)

\* parser.ERA_PATTERNS, in the order of the dict
ERA_PATTERNS ==
    <<[era |-> "reiwa", offset |-> 2018],
      [era |-> "heisei", offset |-> 1988],
      [era |-> "showa", offset |-> 1925]>>

\* the digits from position i on, up to the first character that is none
RECURSIVE DigitsAt(_, _)
DigitsAt(label, i) ==
    IF i > Len(label) \/ ~IsDigitChar(label[i]) THEN <<>>
    ELSE <<label[i]>> \o DigitsAt(label, i + 1)

\* re.findall(r"\d+", label): whether there is a match, and the first one
HasDigits(label) == \E i \in 1..Len(label) : IsDigitChar(label[i])
FirstDigits(label) ==
    DigitsAt(label, CHOOSE i \in 1..Len(label) :
                        IsDigitChar(label[i]) /\ \A j \in 1..(i - 1) : ~IsDigitChar(label[j]))

\* re.findall(r"\d{4}", label): the positions where four digits start, and the
\* first match
FourDigitStarts(label) == {i \in 1..(Len(label) - 3) : Len(DigitsAt(label, i)) >= 4}
FirstFourDigits(label) ==
    SubSeq(label, CHOOSE i \in FourDigitStarts(label) : \A j \in FourDigitStarts(label) : i <= j,
           (CHOOSE i \in FourDigitStarts(label) : \A j \in FourDigitStarts(label) : i <= j) + 3)

\* parser.era_to_gregorian: the offset of the first era that the label holds
\* plus its first number, else its first four digits, else ValueError
era_to_gregorian(label) ==
    LET eras == {k \in 1..Len(ERA_PATTERNS) :
                    \E i \in 1..Len(label) : label[i] = ERA_PATTERNS[k].era}
    IN  IF eras # {} /\ HasDigits(label)
        THEN Return(ERA_PATTERNS[CHOOSE k \in eras : \A m \in eras : k <= m].offset
                    + CharsToInt(FirstDigits(label)))
        ELSE IF FourDigitStarts(label) # {}
        THEN Return(CharsToInt(FirstFourDigits(label)))
        ELSE Raise("ValueError")

\* SessionMeta(label=..., year=..., times_code=..., base_url=BASE_URL)
SessionMeta(label, year, times_code) ==
    [label |-> label, year |-> year, times_code |-> times_code, base_url |-> BASE_URL]

\* the sessions the site lists: the first year as "2024春", the second by its
\* era and with fullwidth digits as "令和７年春", each with its code
LabelOf(year) ==
    IF year = Year2
    THEN <<"reiwa">>
         \o [i \in 1..Len(IntToChars(year - 2018)) |->
                FullwidthDigits[DecimalValue(IntToChars(year - 2018)[i]) + 1]]
         \o <<"nen", "haru">>
    ELSE IntToChars(year) \o <<"haru">>
CodeOf(year) == <<"t">> \o IntToChars(year % 10)

\* the session of a year as discover_sessions builds it from a page read as
\* UTF-8
Session(year) == SessionMeta(LabelOf(year), year, CodeOf(year))

\* an input named times[] with its value, and the text of its label
SessionInput(code, label) == Field("times[]=", code) \o label \o <<">">>

\* the loop of discover_sessions over the inputs named times[] from position
\* i on: an input without value or with a label that gives no year is left out
RECURSIVE discover_from(_, _, _)
discover_from(html, i, found) ==
    IF i > Len(html) THEN found
    ELSE IF html[i] # "times[]=" THEN discover_from(html, i + 1, found)
    ELSE LET code == ValueAt(html, i + 1)
             label_text == Strip(ValueAt(html, i + Len(code) + 2))
             year == era_to_gregorian(label_text)
         IN discover_from(html, i + 1,
                          IF code = <<>> \/ year.exc # "" THEN found
                          ELSE DictSet(found, label_text,
                                       SessionMeta(label_text, year.val, code)))

\* scrape.discover_sessions on the page it fetched: label -> SessionMeta
discover_sessions(html) == discover_from(html, 1, <<>>)

\* str.lower, for the capital letters that an argument of the model holds
UpperCase == <<"L">>
LowerCase == <<"l">>
Lower(s) ==
    [i \in 1..Len(s) |->
        IF \E k \in 1..Len(UpperCase) : UpperCase[k] = s[i]
        THEN LowerCase[CHOOSE k \in 1..Len(UpperCase) : UpperCase[k] = s[i]]
        ELSE s[i]]

\* str.split(sep)
RECURSIVE Split(_, _)
Split(s, sep) ==
    IF \A i \in 1..Len(s) : s[i] # sep THEN <<s>>
    ELSE LET i == CHOOSE i \in 1..Len(s) : s[i] = sep /\ \A j \in 1..(i - 1) : s[j] # sep
         IN <<SubSeq(s, 1, i - 1)>> \o Split(SubSeq(s, i + 1, Len(s)), sep)

\* scrape.resolve_sessions: every discovered session for "all", else the
\* sessions of the labels asked for, and SystemExit when one is not discovered
resolve_sessions(arg_value, discovered) ==
    IF Lower(arg_value) = <<"a", "l", "l">> THEN Return(DictValues(discovered))
    ELSE LET parts == Split(arg_value, ",")
             labels == SelectSeq([i \in 1..Len(parts) |-> Strip(parts[i])],
                                 LAMBDA lbl : lbl # <<>>)
             missing == SelectSeq(labels, LAMBDA lbl : ~DictHas(discovered, lbl))
         IN IF missing # <<>> THEN Raise("SystemExit")
            ELSE Return([i \in 1..Len(labels) |-> DictGet(discovered, labels[i])])

\* --max-qno: three steps or five (at least one, so the loop is entered)
StepChoices == {3, 5}
LongestWalk == CHOOSE n \in StepChoices : \A m \in StepChoices : m <= n
ShortestWalk == CHOOSE n \in StepChoices : \A m \in StepChoices : n <= m

\* the stall budget of a step: while attempts < 3
StallBudget == 3

\* the start page: the list of the sessions and a session identifier; the
\* same without identifier; and the page the site shows while a step has not
\* advanced (HtmlBody: neither sessions nor identifier nor marker)
SessionList ==
    SessionInput(CodeOf(Year1), LabelOf(Year1)) \o SessionInput(CodeOf(Year2), LabelOf(Year2))
LandingPage(s) == HtmlBody \o SessionList \o Field("sid=", s)
LandingPages ==
    {LandingPage(<<"a", "1">>), LandingPage(<<"b", "2">>), HtmlBody \o SessionList, HtmlBody}

\* the page of question n: its marker, the hidden inputs, and the question
StepPage(n, q, question) ==
    <<"dai">> \o IntToChars(n) \o <<"mon">>
    \o Field("_q=", q) \o Field("_r=", <<"r">> \o IntToChars(n))
    \o Field("_c=", <<"c">> \o IntToChars(n)) \o Field("result=", <<"1">>)
    \o question

Question(text, a, i, answer) ==
    <<".selectList">> \o Field("qno=", text) \o Field("select_a", a)
    \o Field("select_i", i) \o Field("answerChar=", answer)

\* a site whose questions carry no number in _q; and a site whose first
\* question carries the number 2, whose second page has no question, and whose
\* fifth question has blank choices
SiteUnnumbered ==
    [n \in 1..LongestWalk |->
        StepPage(n, <<"k">> \o IntToChars(n), Question(<<"T">> \o IntToChars(n), ChX, ChY, <<"A">>))]
SiteNumbered ==
    [n \in 1..LongestWalk |->
        IF n = 1 THEN StepPage(n, <<"k", "_", "2">>, Question(TextP, ChX, ChY, <<"I">>))
        ELSE IF n = 2 THEN StepPage(n, <<"k", "2">>, <<>>)
        ELSE IF n = 5 THEN StepPage(n, <<"k", "5">>, Question(TextQ, <<" ">>, <<>>, <<"A">>))
        ELSE StepPage(n, <<"k">> \o IntToChars(n), Question(<<"T">> \o IntToChars(n), ChX, ChY, <<>>))]
\* a site whose second question carries in _q a last part that str.isdigit
\* accepts and int() does not: a superscript two
SiteSuperscript ==
    [n \in 1..LongestWalk |->
        StepPage(n, IF n = 2 THEN <<"k", "_", "U+00B2">> ELSE <<"k">> \o IntToChars(n),
                 Question(<<"T">> \o IntToChars(n), ChX, ChY, <<"A">>))]
\* the Content-Type the site sends with its pages: without or with a charset
\* (a site that sends no charset is walked with the smallest step count only)
CharsetTypes == {"text/html; charset=utf-8"}
ContentTypes == {"text/html"} \cup CharsetTypes
Sites ==
    {[pages |-> p, ctype |-> c] : p \in {SiteUnnumbered, SiteNumbered}, c \in ContentTypes}
    \cup {[pages |-> SiteSuperscript, ctype |-> c] : c \in ContentTypes}

AllBusy(retries) == [k \in 1..retries |-> Busy(0)]
NotFound == <<Response(404, <<>>, "text/html", 0)>>
Serve(page, ctype) == <<Response(200, page, ctype, 0)>>

\* what the server does with a fetch of the start page, and with an attempt of
\* step i: the page of the step, the page without marker, 503 to every attempt
\* of the client, or 404
LandingScripts == {Serve(p, site.ctype) : p \in LandingPages} \cup {AllBusy(max_retries), NotFound}
StepScripts(i) ==
    {Serve(site.pages[i + 1], site.ctype), Serve(HtmlBody, site.ctype),
     AllBusy(max_retries), NotFound}

Store == [d |-> by_id, prefer |-> prefer_new, cnt |-> Counters, seq |-> sequence_per_year,
          exc |-> "", handed |-> <<>>]

\* an exception leaves main: nothing after it runs
Crash(op, r) ==
    /\ pc' = IF r.exc = "SystemExit" THEN "exit" ELSE "crashed"
    /\ ret' = r
    /\ lastOp' = [op |-> op]

ClientAfter(f) ==
    /\ last_request_time' = f.last
    /\ cache' = f.cache
    /\ now' = f.t
    /\ UNCHANGED <<cache_enabled, throttle_seconds, max_retries, live, last_call>>

\* main up to the loop over the sessions: discover_sessions fetches the start
\* page and reads the sessions from it; with --list-sessions main returns;
\* else the sessions asked for are resolved (SystemExit when one is unknown),
\* the store is constructed, and with --resume it loads the file at out_path
\* when there is one
Discover(script) ==
    /\ pc = "discover"
    /\ \E f \in {fetch(GetLanding, script, cache_enabled, throttle_seconds, max_retries,
                       last_request_time, cache, now)} :
       \E discovered \in {IF f.ret.exc # "" THEN f.ret
                          ELSE IF f.ret.val.t # "str" THEN Raise("TypeError")
                          ELSE Return(discover_sessions(f.ret.val.v))} :
       \E resolved \in {IF discovered.exc # "" THEN discovered
                        ELSE resolve_sessions(args.sessions, discovered.val)} :
           /\ ClientAfter(f)
           /\ IF discovered.exc # ""
              THEN /\ Crash("discover", discovered)
                   /\ UNCHANGED <<sessions, seed, by_id>>
              ELSE IF args.list_sessions
              THEN /\ pc' = "listed"
                   /\ ret' = Return(None)
                   /\ lastOp' = [op |-> "discover", discovered |-> discovered.val]
                   /\ UNCHANGED <<sessions, seed, by_id>>
              ELSE IF resolved.exc # ""
              THEN /\ Crash("discover", resolved)
                   /\ UNCHANGED <<sessions, seed, by_id>>
              ELSE /\ pc' = IF resolved.val = <<>> THEN "done" ELSE "start"
                   /\ sessions' = resolved.val
                   /\ IF args.resume /\ outFile # NoFile
                      THEN /\ seed' = outFile
                           /\ by_id' = IndexById(outFile.questions, <<>>)
                      ELSE UNCHANGED <<seed, by_id>>
                   /\ ret' = Return(None)
                   /\ lastOp' = [op |-> "discover", discovered |-> discovered.val]
    /\ UNCHANGED <<max_qno, args, site, sid, start_time, idx, attempts, carry, log, trace>>
    /\ UNCHANGED <<sequence_per_year, prefer_new, added, replaced, skipped, outFile>>
    /\ UNCHANGED auxVars

\* scrape_session up to the loop: the start page, extract_sid, the start time,
\* the empty carry set
StartSession(script) ==
    /\ pc = "start"
    /\ \E f \in {fetch(GetLanding, script, cache_enabled, throttle_seconds, max_retries,
                       last_request_time, cache, now)} :
       \E s \in {IF f.ret.exc # "" THEN f.ret
                 ELSE IF f.ret.val.t # "str" THEN Raise("TypeError")
                 ELSE extract_sid(f.ret.val.v)} :
           /\ ClientAfter(f)
           /\ IF s.exc # ""
              THEN /\ pc' = IF s.exc = "SystemExit" THEN "exit" ELSE "crashed"
                   /\ ret' = s
                   /\ lastOp' = [op |-> "start", got |-> f.ret.exc = "", page |-> f.ret.val]
                   /\ UNCHANGED <<sid, start_time, idx, attempts, carry>>
              ELSE /\ pc' = "step"
                   /\ sid' = s.val
                   /\ start_time' = IntToChars(f.t)
                   /\ idx' = 0
                   /\ attempts' = 0
                   /\ carry' = [q |-> <<>>, r |-> <<>>, c |-> <<>>, result |-> <<"0">>]
                   /\ ret' = Return(None)
                   /\ lastOp' = [op |-> "start", got |-> TRUE, page |-> f.ret.val]
    /\ UNCHANGED <<sessions, max_qno, args, site, log, trace>>
    /\ UNCHANGED <<storeVars, auxVars>>

\* a walker that reads the hidden inputs of every page, stalled ones included
next_carry_any_page(old, html, found) ==
    [parse_hidden_params(html) EXCEPT !.result = <<"0">>]

\* a walker that sends back the result value the page holds
next_carry_unforced(old, html, found) ==
    IF found THEN parse_hidden_params(html) ELSE old

\* the carry set after a response of a step: q_param, r_param, c_param and
\* result_value are assigned from parse_hidden_params, and result_value forced
\* to "0", only when the page holds the marker of the step
next_carry(old, html, found) ==
    IF found THEN [parse_hidden_params(html) EXCEPT !.result = <<"0">>] ELSE old

\* the loop moves on to the next step, or scrape_session returns to main, which
\* walks the next session or leaves its loop
NextStep ==
    IF idx + 1 < max_qno
    THEN pc' = "step" /\ idx' = idx + 1 /\ attempts' = 0 /\ sessions' = sessions
    ELSE /\ pc' = IF Tail(sessions) = <<>> THEN "done" ELSE "start"
         /\ sessions' = Tail(sessions)
         /\ UNCHANGED <<idx, attempts>>

\* one pass of the while loop of scrape_session: fetch_question_page, handle_html,
\* then the new carry set and the next step when the marker is there, else one
\* more attempt after a second, and the warning when the budget is used up
StepAttempt(script) ==
    /\ pc = "step"
    /\ \E session \in {Head(sessions)} :
       \E data \in {build_post_data(session.times_code, sid, idx, start_time,
                                     carry.q, carry.r, carry.c, carry.result)} :
       \E f \in {fetch(PostStep(sid, idx, data), script, cache_enabled, throttle_seconds,
                       max_retries, last_request_time, cache, now)} :
       \E entry \in {[year |-> session.year, idx |-> idx, attempt |-> attempts + 1,
                       data |-> data, hit |-> f.hit, calls |-> Len(f.calls)]} :
           IF Sent(data, "result") # <<"0">>
           THEN /\ Crash("step", Raise("AssertionError"))
                /\ UNCHANGED <<clientVars, storeVars, sessions, idx, attempts, carry, log, trace>>
           ELSE IF f.ret.exc # "" \/ f.ret.val.content.t # "str"
           THEN /\ ClientAfter(f)
                /\ Crash("step", IF f.ret.exc # "" THEN f.ret ELSE Raise("TypeError"))
                /\ trace' = Append(trace, [exc |-> pc'] @@ entry)
                /\ UNCHANGED <<storeVars, sessions, idx, attempts, carry, log>>
           ELSE \E html \in {f.ret.val.content.v} :
                \E st \in {handle_html(html, idx, session, Store)} :
                \E found \in {Contains(html, Marker(idx))} :
                \E full \in {[exc |-> st.exc, html |-> html, found |-> found,
                               handed |-> st.handed] @@ entry} :
                    /\ by_id' = st.d
                    /\ sequence_per_year' = st.seq
                    /\ added' = st.cnt.added
                    /\ replaced' = st.cnt.replaced
                    /\ skipped' = st.cnt.skipped
                    /\ UNCHANGED <<seed, prefer_new, outFile>>
                    /\ trace' = Append(trace, full)
                    /\ IF st.exc # ""
                       THEN /\ ClientAfter(f)
                            /\ Crash("step", Raise(st.exc))
                            /\ UNCHANGED <<sessions, idx, attempts, carry, log>>
                       ELSE /\ ret' = f.ret
                            /\ lastOp' = [op |-> "step"]
                            /\ last_request_time' = f.last
                            /\ cache' = f.cache
                            /\ UNCHANGED <<cache_enabled, throttle_seconds, max_retries,
                                           live, last_call>>
                            /\ IF found
                               THEN /\ carry' = next_carry(carry, html, found)
                                    /\ now' = f.t
                                    /\ log' = log
                                    /\ NextStep
                               ELSE /\ carry' = next_carry(carry, html, found)
                                    /\ now' = f.t + 1
                                    /\ IF attempts + 1 < StallBudget
                                       THEN /\ attempts' = attempts + 1
                                            /\ log' = log
                                            /\ UNCHANGED <<pc, idx, sessions>>
                                       ELSE /\ log' = Append(log, [year |-> session.year,
                                                                   qno |-> idx])
                                            /\ NextStep
    /\ UNCHANGED <<max_qno, args, site, sid, start_time>>
    /\ UNCHANGED auxVars

\* main after the loop over the sessions: write_seed(out_path, version=1,
\* questions=store.all_questions())
Finish ==
    /\ pc = "done"
    /\ pc' = "written"
    /\ outFile' = write_seed(all_questions(by_id))
    /\ ret' = Return(None)
    /\ lastOp' = [op |-> "write_seed"]
    /\ UNCHANGED <<seed, by_id, sequence_per_year, prefer_new, added, replaced, skipped>>
    /\ UNCHANGED <<clientVars, auxVars>>
    /\ UNCHANGED <<sessions, max_qno, args, site, sid, start_time, idx, attempts, carry, log, trace>>

\* args with --sessions given, and neither --list-sessions nor --resume
Plain(arg_value) == [sessions |-> arg_value, list_sessions |-> FALSE, resume |-> FALSE]

ArgAll == <<"a", "l", "l">>

\* the file a run with --resume finds at out_path
ResumeCorpus == [version |-> 1, questions |-> <<Mk(IdA, TextP, <<ChX, ChY>>, 0)>>]

\* the command lines of a run over one session: the label of the first
\* session; "all"; "all" with a capital; a label the site does not list;
\* --list-sessions; and --resume with the label between a blank and a comma
WalkArgs ==
    {Plain(LabelOf(Year1)), Plain(ArgAll), Plain(<<"a", "L", "l">>), Plain(<<"x">>),
     [Plain(ArgAll) EXCEPT !.list_sessions = TRUE],
     [Plain(<<" ">> \o LabelOf(Year1) \o <<",">>) EXCEPT !.resume = TRUE]}

\* the combinations of command line and site that are walked: "all" on the
\* sites that send no charset (where one session is discovered), every other
\* command line but the plain label on one site and with the smallest step
\* count, the site with the superscript with the smallest step count (and
\* "all" when it sends no charset), a cache_dir with entries on one site with
\* the plain label and the smallest step count
WalkBound ==
    /\ site.ctype \notin CharsetTypes => max_qno = ShortestWalk
    /\ args = Plain(ArgAll) => site.ctype \notin CharsetTypes
    /\ args \notin {Plain(LabelOf(Year1)), Plain(ArgAll)} =>
            /\ max_qno = ShortestWalk
            /\ site.pages = SiteUnnumbered
            /\ (site.ctype \in CharsetTypes) = (args # Plain(<<"a", "L", "l">>))
    /\ site.pages = SiteSuperscript =>
            /\ max_qno = ShortestWalk
            /\ args = IF site.ctype \in CharsetTypes THEN Plain(LabelOf(Year1)) ELSE Plain(ArgAll)
    /\ cache # <<>> =>
            /\ cache_enabled
            /\ max_qno = ShortestWalk
            /\ args = Plain(LabelOf(Year1))
            /\ site.pages = SiteNumbered
            /\ site.ctype \in CharsetTypes

\* what cache_dir holds when main starts: nothing, or what an earlier run of
\* the same session left there, the start page under the key of its request
\* and the page that answered step 0, which lacked the marker
WalkCacheDirs ==
    {<<>>,
     <<[k |-> cache_path(GetLanding), v |-> LandingPage(<<"a", "1">>)],
       [k |-> cache_path(PostStep(<<"a", "1">>, 0, <<>>)), v |-> HtmlBody]>>}

\* main as scrape.py starts it: HttpClient(cache_enabled=not args.no_cache,
\* throttle_seconds=args.throttle) with the default throttle, no file at
\* out_path unless the run resumes, and the store as QuestionStore() will
\* construct it
InitWalk ==
    /\ seed = [version |-> 1, questions |-> <<>>]
    /\ by_id = <<>>
    /\ sequence_per_year = <<>>
    /\ prefer_new = FALSE
    /\ added = 0 /\ replaced = 0 /\ skipped = 0
    /\ outFile \in {NoFile, ResumeCorpus}
    /\ \E e \in BOOLEAN, dir \in WalkCacheDirs :
            NewClient(e, default_throttle_seconds, default_max_retries, StartClock, dir)
    /\ pc = "discover"
    /\ sessions = <<>>
    /\ max_qno \in StepChoices
    /\ args \in WalkArgs
    /\ outFile # NoFile => args.resume
    /\ site \in Sites
    /\ WalkBound
    /\ sid = None
    /\ start_time = None
    /\ idx = 0
    /\ attempts = 0
    /\ carry = <<>>
    /\ log = <<>>
    /\ trace = <<>>
    /\ NoAux
    /\ lastOp = [op |-> "init"]
    /\ ret = Return(None)

NextWalk ==
    \/ \E script \in LandingScripts : Discover(script)
    \/ \E script \in LandingScripts : StartSession(script)
    \/ \E script \in StepScripts(idx) : StepAttempt(script)
    \/ Finish

SpecWalk == InitWalk /\ [][NextWalk]_vars

-----------------------------------------------------------------------------
(* The Record invariants as the specification states them (section 3): an id,  *)
(* a non-empty list of non-blank choices, an answerIndex that is -1 or an index *)
(* into the choices.                                                            *)

RecordInvariants(q) ==
    /\ RequiredKeys \subseteq DOMAIN q
    /\ IsStr(q.id) /\ Strip(q.id) # <<>>
    /\ q.choices # <<>>
    /\ \A i \in 1..Len(q.choices) : q.choices[i] # None /\ Strip(q.choices[i]) # <<>>
    /\ (q.answerIndex = -1 \/ (0 <= q.answerIndex /\ q.answerIndex < Len(q.choices)))

\* the store d holds a record whose id is that of q
HoldsId(d, q) == \E i \in 1..Len(d) : Get(d[i].v, "id") = Get(q, "id")

SameContent(p, q) == Get(p, "text") = Get(q, "text") /\ Get(p, "choices") = Get(q, "choices")

-----------------------------------------------------------------------------
(* Claims on the store *)

\* C1. Idempotent add, as claimed.  On a store that does not prefer incoming records, add(r)
\* returns false and leaves the records as they were when the store already holds
\* a record with r's id, or holds r's id as a key; and after an add that did not
\* raise, r's id is a key of the store.  So a second add of the same record
\* changes neither the length nor the content of all_questions().  (The one thing
\* the skipped call counts up is the store's skipped statistic.)
C1_IdempotentAdd ==
    lastOp.op = "add" =>
        /\ (/\ ~prefer_new
            /\ IsStr(lastOp.q.id)
            /\ (HoldsId(lastOp.pre, lastOp.q) \/ DictHas(lastOp.pre, Strip(lastOp.q.id))))
           => (/\ Returned(ret, FALSE)
               /\ by_id = lastOp.pre
               /\ all_questions(by_id) = all_questions(lastOp.pre))
        /\ ret.exc = "" => DictHas(by_id, Strip(lastOp.q.id))

\* C1 witness: a record was added a second time, with the same id and content,
\* and the call was skipped.
C1_Witness ==
    /\ lastOp.op = "add"
    /\ ~prefer_new
    /\ \E i \in 1..Len(lastOp.pre) : lastOp.pre[i].v = lastOp.q
    /\ Returned(ret, FALSE)
    /\ skipped = 1 /\ added = 1

\* C2. Content dedup, as claimed: on a store that loaded nothing, an add of a
\* record whose text and choices equal those of a held record with another id
\* returns false, and no two held records with different ids share text and choices.
C2_ContentDedup ==
    (lastOp.op = "add" /\ seed.questions = <<>> /\ ret.exc = "") =>
        /\ (\E i \in 1..Len(lastOp.pre) :
                /\ SameContent(lastOp.pre[i].v, lastOp.q)
                /\ lastOp.pre[i].k # Strip(lastOp.q.id))
           => Returned(ret, FALSE)
        /\ \A i, j \in 1..Len(by_id) :
              (i # j /\ SameContent(by_id[i].v, by_id[j].v)) => by_id[i].k = by_id[j].k

\* C3. Validation boundary, as claimed: validate fails when answerIndex equals
\* len(choices), passes when answerIndex is -1 and the rest of the record is
\* valid, and fails when choices is empty.
C3_ValidationBoundary ==
    (lastOp.op = "validate" /\ RequiredKeys \subseteq DOMAIN lastOp.q) =>
        LET q == lastOp.q IN
        /\ q.answerIndex = Len(q.choices) => ret.exc = ValidationError
        /\ (q.answerIndex = -1 /\ RecordInvariants(q)) => ret.exc = ""
        /\ q.choices = <<>> => ret.exc = ValidationError

\* C4. Persistence never writes invalid data, as claimed: every record of the
\* corpus file this run has written satisfies the Record invariants.
C4_PersistedValid ==
    outFile # NoFile =>
        \A i \in 1..Len(outFile.questions) : RecordInvariants(outFile.questions[i])

-----------------------------------------------------------------------------
(* Claims on the client *)

\* the gaps between the starts of consecutive network calls, the last call of
\* the previous fetches included
CallStarts == (IF lastOp.prev_call >= 0 THEN <<lastOp.prev_call>> ELSE <<>>) \o lastOp.calls

RECURSIVE Pow2(_)
Pow2(n) == IF n = 0 THEN 1 ELSE 2 * Pow2(n - 1)

\* C6. Cache round-trip, as claimed: with caching enabled, a fetch of a request
\* that was fetched before makes no network call and returns the content that
\* the first fetch returned.
C6_CacheRoundTrip ==
    (lastOp.op = "fetch" /\ cache_enabled /\ lastOp.hit /\ DictHas(live, lastOp.key)) =>
        /\ lastOp.calls = <<>>
        /\ DictGet(live, lastOp.key).exc = ""
           => Content(lastOp.config, ret) = Content(lastOp.config, DictGet(live, lastOp.key))

\* C7. Retry/backoff termination.  A fetch whose every attempt is answered with
\* 503 makes exactly max_retries network calls and then raises, and attempt k+1
\* starts at least 2^(k-1) seconds (the base delay 1.0 doubled k-1 times) after
\* attempt k started.
C7_RetryBackoff ==
    (/\ lastOp.op = "fetch"
     /\ ~lastOp.hit
     /\ \A k \in 1..Len(lastOp.seen) : lastOp.seen[k].exc = "" /\ lastOp.seen[k].status = 503
     /\ ret.exc # "")
    => /\ Len(lastOp.calls) = max_retries
       /\ ret.exc = "TemporaryError"
       /\ \A k \in 1..(Len(lastOp.calls) - 1) :
             lastOp.calls[k + 1] - lastOp.calls[k] >= Pow2(k - 1)

\* C7 witness: a fetch under the default cap of 5 ended in the error after
\* five calls that were all answered with 503.
C7_Witness ==
    /\ lastOp.op = "fetch"
    /\ max_retries = default_max_retries
    /\ Len(lastOp.seen) = default_max_retries
    /\ \A k \in 1..Len(lastOp.seen) : lastOp.seen[k].status = 503
    /\ ret.exc = "TemporaryError"
    /\ lastOp.calls[5] - lastOp.calls[4] >= 8

\* C8. Throttling, as claimed: any two consecutive network calls of one client,
\* the retries inside one fetch included, start at least throttle_seconds apart.
C8_Throttled ==
    lastOp.op = "fetch" =>
        \A k \in 1..(Len(CallStarts) - 1) :
            CallStarts[k + 1] - CallStarts[k] >= throttle_seconds

-----------------------------------------------------------------------------
(* Claims on the walk *)

\* attempt j of the trace ended without an exception and its response did not
\* hold the marker of its step
Stalled(j) == trace[j].exc = "" /\ ~trace[j].found

\* the tokens a request carries are those of the page
CarriesTokensOf(data, html) ==
    /\ Sent(data, "_q") = FieldValue(html, "_q=")
    /\ Sent(data, "_r") = FieldValue(html, "_r=")
    /\ Sent(data, "_c") = FieldValue(html, "_c=")

\* C5. Stall recovery.  When the first two attempts of a step (step 3 among
\* them) got a response without the step marker and the third attempt got a
\* response with it, the questions of that third response were handed to the
\* store and their ids are in the store; and when the walk has a next step, the
\* walker is at that step (step 4 after step 3) with the tokens _q, _r, _c of
\* the third response as its carry set, and the request it then sends for that
\* step carries exactly these tokens.
C5_StallRecovery ==
    \A j \in 3..Len(trace) :
        LET e == trace[j] IN
        (/\ e.exc = "" /\ e.found /\ e.attempt = 3
         /\ trace[j - 1].idx = e.idx /\ Stalled(j - 1)
         /\ trace[j - 2].idx = e.idx /\ Stalled(j - 2))
        => /\ Len(e.handed) = Len(extract_questions_from_html(e.html, Session(e.year)).val)
           /\ \A h \in 1..Len(e.handed) :
                 /\ e.handed[h].ret.exc = ""
                 /\ DictHas(by_id, Strip(e.handed[h].q.id))
           /\ (e.idx + 1 < max_qno /\ j = Len(trace)) =>
                 /\ pc = "step" /\ idx = e.idx + 1 /\ attempts = 0
                 /\ carry.q = FieldValue(e.html, "_q=")
                 /\ carry.r = FieldValue(e.html, "_r=")
                 /\ carry.c = FieldValue(e.html, "_c=")
           /\ (e.idx + 1 < max_qno /\ j < Len(trace)) =>
                 /\ trace[j + 1].idx = e.idx + 1
                 /\ trace[j + 1].attempt = 1
                 /\ CarriesTokensOf(trace[j + 1].data, e.html)

\* C5 witness: step 3 stalled twice, advanced on its third attempt with one
\* question handed to the store, and the request of step 4 has been sent.
C5_Witness ==
    \E j \in 3..(Len(trace) - 1) :
        /\ trace[j].idx = 3 /\ trace[j].exc = "" /\ trace[j].found /\ trace[j].attempt = 3
        /\ Stalled(j - 1) /\ Stalled(j - 2)
        /\ Len(trace[j].handed) = 1
        /\ trace[j + 1].idx = 4
        /\ Sent(trace[j + 1].data, "_q") = <<"k", "4">>

\* C9. Fetch failure inside a step is contained, as claimed: when the fetch of
\* a step attempt raises, the walk goes on (it is at a step, at the start of
\* the next session, or done with the corpus still to be written), and the
\* attempt is counted against the budget of the step.
C9_FetchFailureContained ==
    \A j \in 1..Len(trace) :
        trace[j].exc \notin {"", "exit"} =>
            /\ pc \in {"step", "start", "done", "written"}
            /\ (j = Len(trace) /\ pc = "step" /\ idx = trace[j].idx)
               => attempts = trace[j].attempt

\* the 3-step session of the end-to-end scenario: steps 0 and 1 advance at
\* once, each with one question that has no id of its own, step 2 stalls on
\* all three attempts, and the walk is over
EndToEndScenario ==
    /\ max_qno = 3
    /\ seed.questions = <<>>
    /\ pc \in {"done", "written"}
    /\ Len(trace) = 5
    /\ \A j \in 1..5 : trace[j].exc = ""
    /\ \A j \in 1..2 :
          /\ trace[j].idx = j - 1 /\ trace[j].found
          /\ Len(trace[j].handed) = 1 /\ trace[j].handed[1].synth
    /\ \A j \in 3..5 : trace[j].idx = 2 /\ ~trace[j].found

\* the records of the store are two, with these ids in this order, the file
\* once written holds the same, and the one warning logged is for step 2
EndsWithIds(id1, id2) ==
    /\ Len(all_questions(by_id)) = 2
    /\ all_questions(by_id)[1].id = id1
    /\ all_questions(by_id)[2].id = id2
    /\ pc = "written" => outFile.questions = all_questions(by_id)
    /\ Len(log) = 1 /\ log[1].qno = 2

\* C10 as claimed: the scenario ends with the ids p2024-q001 and p2024-q002.
C10_AsClaimed ==
    EndToEndScenario =>
        EndsWithIds(<<"p", "2", "0", "2", "4", "-", "q", "0", "0", "1">>,
                    <<"p", "2", "0", "2", "4", "-", "q", "0", "0", "2">>)

\* C10. End-to-end scenario.  A 3-step session of the year 2024 on a store that
\* loaded nothing, in which steps 0 and 1 advance and each yields one record
\* without an identity and step 2 stalls on all 3 attempts, ends with a corpus
\* of exactly 2 records carrying the synthesized ids ap-2024-q001 and
\* ap-2024-q002, and with one logged abandonment, for step 2.
C10_EndToEnd ==
    EndToEndScenario =>
        EndsWithIds(<<"a", "p", "-", "2", "0", "2", "4", "-", "q", "0", "0", "1">>,
                    <<"a", "p", "-", "2", "0", "2", "4", "-", "q", "0", "0", "2">>)

\* C10 witness: the scenario has happened and the corpus file is written.
C10_Witness ==
    /\ EndToEndScenario
    /\ pc = "written"
    /\ Len(outFile.questions) = 2
    /\ Len(log) = 1
-----------------------------------------------------------------------------
(* Claims on the records of the store *)

\* C16. Id uniqueness, as claimed, for the store: after any sequence of
\* load_existing, add and write operations no two records of all_questions()
\* have the same id.  (The half of the claim on a merged corpus is
\* C16_MergedIdsUnique.)
C16_StoreIdsUnique ==
    \A i, j \in 1..Len(all_questions(by_id)) :
        i # j => Get(all_questions(by_id)[i], "id") # Get(all_questions(by_id)[j], "id")

\* the ids under which load_existing indexes the records of the loaded file,
\* and the first position of an id in that file
LoadedIds ==
    {Get(seed.questions[i], "id") : i \in 1..Len(seed.questions)} \ {None, <<>>}
FirstPos(k) ==
    CHOOSE i \in 1..Len(seed.questions) :
        /\ Get(seed.questions[i], "id") = k
        /\ \A j \in 1..(i - 1) : Get(seed.questions[j], "id") # k

\* C18. all_questions() ordering.  The records of the loaded file come first, in
\* the order of the file (and as the file has them while nothing replaced them);
\* an add that accepts a new id puts its record at the end; an add that replaces
\* or is skipped leaves every record at its position, the replaced one holding
\* the incoming record.
C18_Ordering ==
    LET n == Cardinality(LoadedIds) IN
    /\ Len(by_id) >= n
    /\ \A i \in 1..n : by_id[i].k \in LoadedIds
    /\ \A i, j \in 1..n : i < j => FirstPos(by_id[i].k) < FirstPos(by_id[j].k)
    /\ replaced = 0 => \A i \in 1..n : \E j \in 1..Len(seed.questions) :
                            by_id[i].v = seed.questions[j]
    /\ (lastOp.op = "add" /\ ret.exc = "") =>
          LET key == Strip(lastOp.q.id)
              pre == lastOp.pre
          IN IF ~DictHas(pre, key)
             THEN all_questions(by_id) = Append(all_questions(pre), lastOp.q)
             ELSE /\ Len(by_id) = Len(pre)
                  /\ \A i \in 1..Len(pre) :
                        /\ by_id[i].k = pre[i].k
                        /\ by_id[i].v = IF pre[i].k = key /\ prefer_new THEN lastOp.q
                                        ELSE pre[i].v

\* C18 witness: the store loaded a file of one record, accepted a new record,
\* and then replaced the record of the file, which stayed first.
C18_Witness ==
    /\ lastOp.op = "add"
    /\ Len(seed.questions) = 1
    /\ added = 1 /\ replaced = 1
    /\ Len(by_id) = 2
    /\ by_id[1].v = lastOp.q
    /\ by_id[1].v # seed.questions[1]
    /\ by_id[1].k = seed.questions[1].id

\* C19. Prefer-incoming replace, as claimed: on a store that prefers incoming
\* records, add(r) when the store holds a record with r's id returns true,
\* leaves the number of records as it was, and every held record with that id
\* is r.
C19_PreferIncomingReplace ==
    (/\ lastOp.op = "add" /\ prefer_new
     /\ IsStr(lastOp.q.id) /\ HoldsId(lastOp.pre, lastOp.q))
    => /\ Returned(ret, TRUE)
       /\ Len(by_id) = Len(lastOp.pre)
       /\ \A i \in 1..Len(by_id) : by_id[i].v.id = lastOp.q.id => by_id[i].v = lastOp.q
-----------------------------------------------------------------------------
(* storage.merge_seed_files *)

\* the longest list of questions in a file that is merged
MaxCorpus == 2

\* an entry of "questions" that is no JSON object: null
JsonNull == [json |-> "null"]
IsObject(q) == "json" \notin DOMAIN q

\* validate_question(q) as repair_seed and validate_seed call it: it returns,
\* raises ValidationError, or, for an entry that is null (key not in q),
\* raises TypeError
validate_outcome(q) ==
    IF ~IsObject(q) THEN "TypeError"
    ELSE IF validate_question(q) THEN ""
    ELSE ValidationError

\* seed.get(key, default)
SeedGet(sd, key, default) == IF key \in DOMAIN sd THEN sd[key] ELSE default

\* the loop of storage.repair_seed over the questions k.. of the file: the valid
\* ones, the ids of the others ("<missing id>" for one without), or the TypeError
\* that leaves the loop
RECURSIVE repair_from(_, _, _, _)
repair_from(questions, k, valid_questions, invalid_ids) ==
    IF k > Len(questions)
    THEN [exc |-> "", questions |-> valid_questions, dropped |-> invalid_ids]
    ELSE LET q == questions[k]
             out == validate_outcome(q)
         IN IF out = "" THEN repair_from(questions, k + 1, Append(valid_questions, q),
                                         invalid_ids)
            ELSE IF out = ValidationError
            THEN LET qid == Get(q, "id") IN
                 repair_from(questions, k + 1, valid_questions,
                             Append(invalid_ids,
                                    IF qid # None /\ qid # <<>> THEN qid
                                    ELSE <<"<missing id>">>))
            ELSE [exc |-> out, questions |-> valid_questions, dropped |-> invalid_ids]

\* storage.repair_seed on a seed that is a dict with a list of questions, an int
\* version and well-typed generatedAt and sourceSessions
repair_seed(sd) ==
    LET r == repair_from(sd.questions, 1, <<>>, <<>>) IN
    [exc |-> r.exc, seed |-> [sd EXCEPT !.questions = r.questions], dropped |-> r.dropped]

\* storage.validate_seed on a file of the model: the first exception it raises
validate_seed_outcome(sd) ==
    IF \A i \in 1..Len(sd.questions) : validate_outcome(sd.questions[i]) = "" THEN ""
    ELSE validate_outcome(
            sd.questions[CHOOSE i \in 1..Len(sd.questions) :
                            /\ validate_outcome(sd.questions[i]) # ""
                            /\ \A j \in 1..(i - 1) : validate_outcome(sd.questions[j]) = ""])

\* a merge that never replaces: prefer_new is not looked at
RECURSIVE merge_incoming_keep(_, _, _, _, _)
merge_incoming_keep(incoming, prefer, merged, n_added, n_replaced) ==
    IF incoming = <<>>
    THEN [questions |-> DictValues(merged), added |-> n_added, replaced |-> n_replaced]
    ELSE LET q == Head(incoming) IN
         IF DictHas(merged, q.id)
         THEN merge_incoming_keep(Tail(incoming), prefer, merged, n_added, n_replaced)
         ELSE merge_incoming_keep(Tail(incoming), prefer, DictSet(merged, q.id, q),
                                  n_added + 1, n_replaced)

\* a merge that does not look the id up: every incoming record is new
RECURSIVE merge_incoming_append(_, _, _, _, _)
merge_incoming_append(incoming, prefer, merged, n_added, n_replaced) ==
    IF incoming = <<>>
    THEN [questions |-> DictValues(merged), added |-> n_added, replaced |-> n_replaced]
    ELSE LET q == Head(incoming) IN
         merge_incoming_append(Tail(incoming), prefer,
                               Append(merged, [k |-> q.id, v |-> q]),
                               n_added + 1, n_replaced)

\* the loop of storage.merge_questions over the incoming records
RECURSIVE merge_incoming(_, _, _, _, _)
merge_incoming(incoming, prefer, merged, n_added, n_replaced) ==
    IF incoming = <<>>
    THEN [questions |-> DictValues(merged), added |-> n_added, replaced |-> n_replaced]
    ELSE LET q == Head(incoming) IN
         IF DictHas(merged, q.id)
         THEN IF prefer
              THEN merge_incoming(Tail(incoming), prefer, DictSet(merged, q.id, q),
                                  n_added, n_replaced + 1)
              ELSE merge_incoming(Tail(incoming), prefer, merged, n_added, n_replaced)
         ELSE merge_incoming(Tail(incoming), prefer, DictSet(merged, q.id, q),
                             n_added + 1, n_replaced)

\* merged = {q["id"]: q for q in existing}
RECURSIVE DictOf(_, _)
DictOf(questions, d) ==
    IF questions = <<>> THEN d
    ELSE DictOf(Tail(questions), DictSet(d, Head(questions).id, Head(questions)))

\* storage.merge_questions
merge_questions(existing, incoming, prefer) ==
    merge_incoming(incoming, prefer, DictOf(existing, <<>>), 0, 0)

\* x or y, for a value that is None or empty when it is falsy
Or(x, y) == IF x # None /\ x # <<>> THEN x ELSE y

\* storage.merge_seed_files on the content of existing_path (NoFile when it does
\* not exist) and of incoming_path: what it returns or raises, and the seed it
\* writes to out_path when it gets that far
merge_seed_files(existing_file, incoming, prefer) ==
    LET existing0 == IF existing_file = NoFile THEN [version |-> 1, questions |-> <<>>]
                     ELSE existing_file
        rep == repair_seed(existing0)
        existing == rep.seed
        m == merge_questions(existing.questions, incoming.questions, prefer)
        merged_seed ==
            [version |-> Max(SeedGet(existing, "version", 1), SeedGet(incoming, "version", 1)),
             questions |-> m.questions,
             generatedAt |-> Or(SeedGet(incoming, "generatedAt", None),
                                SeedGet(existing, "generatedAt", None)),
             sourceSessions |-> Or(SeedGet(incoming, "sourceSessions", None),
                                   SeedGet(existing, "sourceSessions", <<>>))]
    IN  IF rep.exc # "" THEN [ret |-> Raise(rep.exc), written |-> FALSE, seed |-> NoFile]
        ELSE IF validate_seed_outcome(incoming) # ""
        THEN [ret |-> Raise(validate_seed_outcome(incoming)), written |-> FALSE,
              seed |-> NoFile]
        ELSE IF validate_seed_outcome(merged_seed) # ""
        THEN [ret |-> Raise(validate_seed_outcome(merged_seed)), written |-> FALSE,
              seed |-> NoFile]
        ELSE [ret |-> Return([added |-> m.added, replaced |-> m.replaced,
                              merged |-> merged_seed, dropped |-> rep.dropped]),
              written |-> TRUE, seed |-> merged_seed]

\* records that merged files hold: two valid ones, one with the id of the first
\* and another answer, one with an unknown answer, one with no id and no choices
MergeA == Mk(IdA, TextP, <<ChX, ChY>>, 0)
MergeA2 == Mk(IdA, TextP, <<ChX, ChY>>, 1)
MergeB == Mk(IdB, TextQ, <<ChX, ChY>>, 1)
MergeUnknown == Mk(IdB, TextQ, <<ChX, ChY>>, -1)
MergeNoId == Mk(None, TextP, <<>>, 0)

\* the file at existing_path, which an older version may have written, and
\* the file at incoming_path, which a run of the scraper has written
ExistingFiles ==
    {NoFile} \cup
    {[version |-> 1, questions |-> qs] :
        qs \in SeqsUpTo({MergeA, MergeA2, MergeB, MergeUnknown, MergeNoId, JsonNull}, MaxCorpus)}
IncomingFiles ==
    {[version |-> v, questions |-> qs] :
        v \in {1, 2}, qs \in SeqsUpTo({MergeA, MergeA2, MergeB, MergeUnknown}, MaxCorpus)}

\* tools/update_seed.py: merge_seed_files(seed_path, tmp_path, seed_path,
\* prefer_new), whose four values the tool unpacks into three names: when the
\* merge returns, the statement raises ValueError after the file is written.
\* What merge_seed_files itself returned or raised is kept in lastOp.result.
Merge ==
    /\ lastOp.op = "merge_input"
    /\ LET r == merge_seed_files(lastOp.existing, lastOp.incoming, lastOp.prefer) IN
        /\ outFile' = IF r.written THEN r.seed ELSE outFile
        /\ ret' = IF r.ret.exc = "" THEN Raise("ValueError") ELSE r.ret
        /\ lastOp' = [op |-> "merge", existing |-> lastOp.existing,
                      incoming |-> lastOp.incoming, prefer |-> lastOp.prefer,
                      result |-> r.ret]
    /\ UNCHANGED <<seed, by_id, sequence_per_year, prefer_new, added, replaced, skipped>>
    /\ UNCHANGED <<clientVars, walkVars, auxVars>>

\* the tool constructs no QuestionStore; out_path is existing_path
InitMerge ==
    /\ seed = [version |-> 1, questions |-> <<>>]
    /\ by_id = <<>>
    /\ sequence_per_year = <<>>
    /\ prefer_new = FALSE
    /\ added = 0 /\ replaced = 0 /\ skipped = 0
    /\ NewClient(TRUE, default_throttle_seconds, default_max_retries, StartClock, <<>>)
    /\ NoWalk
    /\ NoAux
    /\ \E e \in ExistingFiles, i \in IncomingFiles, p \in BOOLEAN :
          /\ lastOp = [op |-> "merge_input", existing |-> e, incoming |-> i, prefer |-> p]
          /\ outFile = e
    /\ ret = Return(None)

NextMerge == Merge

SpecMerge == InitMerge /\ [][NextMerge]_vars
-----------------------------------------------------------------------------
(* Claims on the merge *)

\* the set of the records of a list, and whether its ids are pairwise different
\* what merge_seed_files returned or raised in the last run of the tool
MergeResult == lastOp.result

RecordSet(qs) == {qs[i] : i \in 1..Len(qs)}
UniqueIds(qs) == \A i, j \in 1..Len(qs) : i # j => qs[i].id # qs[j].id

\* every entry of the file is an object that validate_question accepts
ValidFile(f) == f # NoFile /\ validate_seed_outcome(f) = ""

\* C11. Merge identity.  For a file A whose records all pass validation and have
\* pairwise different ids, merge_seed_files(A, A, prefer_new=False) returns
\* added = 0 and replaced = 0, drops nothing, and the merged corpus, which it
\* writes, has exactly the records of A, each id once.
C11_MergeIdentity ==
    (/\ lastOp.op = "merge" /\ ~lastOp.prefer
     /\ lastOp.existing = lastOp.incoming
     /\ ValidFile(lastOp.incoming) /\ UniqueIds(lastOp.incoming.questions))
    => /\ MergeResult.exc = ""
       /\ MergeResult.val.added = 0 /\ MergeResult.val.replaced = 0
       /\ MergeResult.val.dropped = <<>>
       /\ RecordSet(MergeResult.val.merged.questions) = RecordSet(lastOp.incoming.questions)
       /\ UniqueIds(MergeResult.val.merged.questions)
       /\ outFile = MergeResult.val.merged

\* the half of C16 on merged corpora: no two records of a corpus that
\* merge_seed_files returns and writes have the same id
C16_MergedIdsUnique ==
    (lastOp.op = "merge" /\ MergeResult.exc = "")
    => /\ UniqueIds(MergeResult.val.merged.questions)
       /\ UniqueIds(outFile.questions)

\* C11 witness: a file of two valid records was merged with itself.
C11_Witness ==
    /\ lastOp.op = "merge" /\ ~lastOp.prefer
    /\ lastOp.existing = lastOp.incoming
    /\ Len(lastOp.incoming.questions) = 2
    /\ MergeResult.exc = ""
    /\ Len(outFile.questions) = 2

\* the last record of the list with the id
LastWithId(qs, id) ==
    qs[CHOOSE i \in 1..Len(qs) : qs[i].id = id /\ \A j \in (i + 1)..Len(qs) : qs[j].id # id]

Failing(qs) == SelectSeq(qs, LAMBDA q : validate_outcome(q) # "")

\* C13. Merge repairs the existing corpus instead of aborting, as claimed: with
\* an incoming file that passes validation, the merge returns and writes its
\* result whatever entries of the existing file fail validation; these are not
\* in the merged corpus, droppedIds has one entry for each, and the id of every
\* valid existing record is in the merged corpus.
C13_MergeRepairs ==
    (/\ lastOp.op = "merge"
     /\ lastOp.existing # NoFile
     /\ ValidFile(lastOp.incoming))
    => /\ MergeResult.exc = ""
       /\ outFile = MergeResult.val.merged
       /\ Len(MergeResult.val.dropped) = Len(Failing(lastOp.existing.questions))
       /\ \A i \in 1..Len(outFile.questions) : validate_outcome(outFile.questions[i]) = ""
       /\ \A i \in 1..Len(lastOp.existing.questions) :
             validate_outcome(lastOp.existing.questions[i]) = ""
             => \E j \in 1..Len(outFile.questions) :
                    outFile.questions[j].id = lastOp.existing.questions[i].id

\* C14, as claimed: merge rejects an invalid incoming corpus.  When a record of
\* the incoming file fails validation, merge_seed_files raises ValidationError
\* and the file at out_path is as it was before the call.
C14_MergeRejectsInvalidIncoming ==
    (lastOp.op = "merge" /\ ~ValidFile(lastOp.incoming))
    => /\ MergeResult.exc = ValidationError
       /\ outFile = lastOp.existing

\* the same where repairing the existing file does not raise: there is no
\* existing file, or each of its entries is an object
C14_WhenExistingRepairs ==
    (/\ lastOp.op = "merge" /\ ~ValidFile(lastOp.incoming)
     /\ (lastOp.existing = NoFile
         \/ \A i \in 1..Len(lastOp.existing.questions) :
               IsObject(lastOp.existing.questions[i])))
    => /\ MergeResult.exc = ValidationError
       /\ outFile = lastOp.existing

\* whatever the existing file holds, a merge of an invalid incoming file raises
\* and writes nothing
C14_NothingWritten ==
    (lastOp.op = "merge" /\ ~ValidFile(lastOp.incoming))
    => /\ MergeResult.exc # ""
       /\ outFile = lastOp.existing
-----------------------------------------------------------------------------
(* Persisting a corpus: write_seed_atomic and _write_seed_atomic_compat, step *)
(* by step, next to a reader of the same path and a kill at any point         *)

\* del d[key]
DictRemove(d, key) == SelectSeq(d, LAMBDA e : e.k # key)

\* the path of the corpus, as its parts
SeedPath == <<"seed.json">>

\* a writer that uses the path itself as its temporary file
tmp_path_in_place(p, kind) == p

\* the temporary file: path.with_suffix(path.suffix + ".tmp") in
\* write_seed_atomic, tempfile.mkstemp(prefix=p.name + ".", suffix=".tmp",
\* dir=str(p.parent)) in _write_seed_atomic_compat
tmp_path(p, kind) ==
    IF kind = "write_seed_atomic" THEN p \o <<".tmp">>
    ELSE p \o <<".", "k3x9", ".tmp">>

\* json.dump(seed, fh): the text as the pieces that reach the file one after
\* the other
json_dump(sd) ==
    <<[c |-> "{"], [c |-> "version", v |-> sd.version]>>
    \o [i \in 1..Len(sd.questions) |-> [c |-> "question", v |-> sd.questions[i]]]
    \o <<[c |-> "}"]>>

\* the text is a complete document, and json.load of it
IsJson(text) ==
    /\ Len(text) >= 3
    /\ text[1].c = "{"
    /\ text[2].c = "version"
    /\ \A i \in 3..(Len(text) - 1) : text[i].c = "question"
    /\ text[Len(text)].c = "}"
json_load(text) ==
    [version |-> text[2].v, questions |-> [i \in 1..(Len(text) - 3) |-> text[i + 2].v]]

\* what someone who opens the path sees: no file, a corpus, or a text that is
\* no complete document
View(files, p) ==
    IF ~DictHas(files, p) THEN [seen |-> "missing", seed |-> NoFile]
    ELSE IF IsJson(DictGet(files, p))
    THEN [seen |-> "corpus", seed |-> json_load(DictGet(files, p))]
    ELSE [seen |-> "partial", seed |-> NoFile]

Tmp == tmp_path(SeedPath, writer.kind)

\* open(tmp, "w") / mkstemp: the temporary file is there and empty
OpenTmp ==
    /\ writer.pc = "open"
    /\ fs' = DictSet(fs, Tmp, <<>>)
    /\ writer' = [writer EXCEPT !.pc = "dump"]
    /\ UNCHANGED observed

\* json.dump: the next piece of the text reaches the temporary file
DumpPiece ==
    /\ writer.pc = "dump"
    /\ writer.todo # <<>>
    /\ fs' = DictSet(fs, Tmp, Append(DictGet(fs, Tmp), Head(writer.todo)))
    /\ writer' = [writer EXCEPT !.todo = Tail(@)]
    /\ UNCHANGED observed

\* the with block ends: the file is closed
CloseTmp ==
    /\ writer.pc = "dump"
    /\ writer.todo = <<>>
    /\ writer' = [writer EXCEPT !.pc = "replace"]
    /\ UNCHANGED <<fs, observed>>

\* tmp.replace(path) / os.replace(tmp, path): one step of the file system
Replace ==
    /\ writer.pc = "replace"
    /\ fs' = DictSet(DictRemove(fs, Tmp), SeedPath, DictGet(fs, Tmp))
    /\ writer' = [writer EXCEPT !.pc = IF writer.kind = "write_seed_atomic" THEN "done"
                                       ELSE "finally"]
    /\ UNCHANGED observed

\* the finally block of _write_seed_atomic_compat: os.remove(tmp) when it exists
Finally ==
    /\ writer.pc = "finally"
    /\ fs' = DictRemove(fs, Tmp)
    /\ writer' = [writer EXCEPT !.pc = "done"]
    /\ UNCHANGED observed

\* the process is killed where it stands
Kill ==
    /\ writer.pc \notin {"done", "killed"}
    /\ writer' = [writer EXCEPT !.pc = "killed"]
    /\ UNCHANGED <<fs, observed>>

\* another process opens the path and reads it
Read ==
    /\ observed' = View(fs, SeedPath)
    /\ UNCHANGED <<fs, writer>>

\* the corpus the path holds before the call, if any, and the one to persist
PersistCorpora ==
    {[version |-> 1, questions |-> <<MergeA>>],
     [version |-> 2, questions |-> <<MergeB, MergeA2>>]}

InitPersist ==
    /\ NewStore(FALSE)
    /\ NewClient(TRUE, default_throttle_seconds, default_max_retries, StartClock, <<>>)
    /\ NoWalk
    /\ other_sequence = <<>>
    /\ \E old \in PersistCorpora \cup {NoFile}, new \in PersistCorpora,
          kind \in {"write_seed_atomic", "_write_seed_atomic_compat"} :
          /\ fs = IF old = NoFile THEN <<>> ELSE <<[k |-> SeedPath, v |-> json_dump(old)]>>
          /\ writer = [kind |-> kind, pc |-> "open", old |-> old, new |-> new,
                       todo |-> json_dump(new)]
    /\ observed = [seen |-> "unread", seed |-> NoFile]
    /\ lastOp = [op |-> "init"]
    /\ ret = Return(None)

NextPersist ==
    /\ (OpenTmp \/ DumpPiece \/ CloseTmp \/ Replace \/ Finally \/ Kill \/ Read)
    /\ UNCHANGED <<storeVars, clientVars, walkVars, other_sequence, lastOp, ret>>

SpecPersist == InitPersist /\ [][NextPersist]_vars

\* what the path may show: the previous corpus (or no file when there was
\* none) or the new corpus
OldOrNew(v) ==
    \/ v.seen = "corpus" /\ v.seed \in {writer.old, writer.new}
    \/ v.seen = "missing" /\ writer.old = NoFile

\* C15. Atomic persistence.  At every point of a write of a corpus to a path,
\* a kill of the writer at any point included, the path shows the complete
\* previous corpus (no file when there was none) or the complete new corpus, and
\* so did every read of the path by another process; once the writer is done the
\* path shows the new corpus.
C15_AtomicPersist ==
    /\ OldOrNew(View(fs, SeedPath))
    /\ observed.seen # "unread" => OldOrNew(observed)
    /\ writer.pc = "done" => View(fs, SeedPath) = [seen |-> "corpus", seed |-> writer.new]

\* C15 witness: the writer was killed while the temporary file held a part of
\* the new text, and a reader that came after saw the previous corpus.
C15_Witness ==
    /\ writer.pc = "killed"
    /\ DictHas(fs, Tmp)
    /\ View(fs, Tmp).seen = "partial"
    /\ DictGet(fs, Tmp) # <<>>
    /\ observed.seen = "corpus"
    /\ observed.seed = writer.old
    /\ writer.old # writer.new
-----------------------------------------------------------------------------
(* The sequence numbers of two stores of one process *)

InitSeq ==
    /\ NewStore(FALSE)
    /\ NewClient(TRUE, default_throttle_seconds, default_max_retries, StartClock, <<>>)
    /\ NoWalk
    /\ NoAux
    /\ lastOp = [op |-> "init"]
    /\ ret = Return(None)

NextSeq ==
    \/ \E y \in {Year1, Year2} : NextSequence(y)
    \/ \E y \in {Year1, Year2} : NextSequenceOther(y)

SpecSeq == InitSeq /\ [][NextSeq]_vars

\* the counters of the two stores
SequenceOf(store) == IF store = 1 THEN sequence_per_year ELSE other_sequence

\* C17. nextSequence.  A call of next_sequence(year) on a store returns 1 when
\* that store has returned nothing for the year and one more than what it last
\* returned for the year otherwise; it leaves what every other year, and every
\* year of the other store, will return next as it was; and what a store will
\* return next for a year is always one more than what it last returned for it.
C17_NextSequence ==
    /\ lastOp.op = "next_sequence" =>
          /\ ret = Return(IF lastOp.prev = 0 THEN 1 ELSE lastOp.prev + 1)
          /\ \A s \in {1, 2}, y \in {Year1, Year2} :
                <<s, y>> # <<lastOp.store, lastOp.year>> =>
                    CounterGet(SequenceOf(s), y) = CounterGet(lastOp.pre[s], y)
    /\ \A s \in {1, 2}, y \in {Year1, Year2} :
          CounterGet(SequenceOf(s), y) = LastReturned[<<s, y>>]

\* C17 witness: a second call for a year on the second store returned 2 after
\* the first store had gone on to another value for that year and the second
\* store had numbered another year.
C17_Witness ==
    /\ lastOp.op = "next_sequence"
    /\ lastOp.store = 2
    /\ lastOp.year = Year1
    /\ lastOp.prev = 1
    /\ ret = Return(2)
    /\ CounterGet(sequence_per_year, Year1) = 1
    /\ CounterGet(other_sequence, Year2) = 1
-----------------------------------------------------------------------------
(* Claims on statuses the client does not retry *)

\* the status is neither 2xx nor one the loop retries
OtherNon2xx(status) ==
    /\ ~(200 <= status /\ status < 300)
    /\ status # 429
    /\ ~(500 <= status /\ status < 600)

\* the fetch went to the network and its first answer was a response
AnsweredFirst ==
    /\ lastOp.op = "fetch"
    /\ ~lastOp.hit
    /\ lastOp.seen[1].exc = ""

\* C20. Non-retryable status is fatal at once.  A fetch whose request is answered
\* with a status that is not 2xx, not 429 and not 5xx raises after exactly one
\* network call, without a backoff sleep (it ends when that call's answer is
\* in), and leaves the cache as it was.
C20_FatalAtOnce ==
    (AnsweredFirst /\ OtherNon2xx(lastOp.seen[1].status)) =>
        /\ ret.exc # ""
        /\ Len(lastOp.calls) = 1
        /\ now = lastOp.calls[1] + lastOp.seen[1].dur
        /\ cache = lastOp.pre_cache

\* the same for the statuses raise_for_status refuses: from 400 to 599
C20_ClientErrors ==
    (AnsweredFirst /\ OtherNon2xx(lastOp.seen[1].status) /\ raise_for_status(lastOp.seen[1].status)) =>
        /\ ret = Raise("HTTPError")
        /\ Len(lastOp.calls) = 1
        /\ now = lastOp.calls[1] + lastOp.seen[1].dur
        /\ cache = lastOp.pre_cache
-----------------------------------------------------------------------------
(* Claims on the order of the steps of a walk *)

\* every step attempt so far got a page: none ended in an exception
AllAnswered == \A j \in 1..Len(trace) : trace[j].exc = ""

\* attempt j was the last of its step: the step advanced, or its budget is used up
Processed(j) == trace[j].found \/ trace[j].attempt = StallBudget

\* every step attempt so far was answered with a page: its fetch returned one
AllGotPage == \A j \in 1..Len(trace) : "html" \in DOMAIN trace[j]

\* C21, as claimed: fixed step count and order.  In a walk whose step attempts
\* all were answered with a page (advancing or stalled), the step indices
\* submitted start at 0, never go down, go up by exactly one and only after the
\* step before was processed (advanced, or abandoned after its third stalled
\* attempt), and stay below max_qno; the walk is never over before step
\* max_qno - 1 has been processed, every index from 0 to max_qno - 1 has then
\* been submitted, and until then the walker stays at a step: no page makes it
\* stop earlier.
C21_FixedSteps ==
    (/\ pc \in {"step", "done", "written", "crashed"}
     /\ AllGotPage
     /\ (Len(trace) > 0 \/ pc = "step")) =>
        /\ Len(trace) > 0 => trace[1].idx = 0 /\ trace[1].attempt = 1
        /\ \A j \in 2..Len(trace) :
              IF Processed(j - 1)
              THEN trace[j].idx = trace[j - 1].idx + 1 /\ trace[j].attempt = 1
              ELSE trace[j].idx = trace[j - 1].idx /\ trace[j].attempt = trace[j - 1].attempt + 1
        /\ \A j \in 1..Len(trace) : trace[j].idx < max_qno
        /\ pc \in {"done", "written"} =>
              /\ Len(trace) > 0
              /\ trace[Len(trace)].idx = max_qno - 1
              /\ Processed(Len(trace))
              /\ \A i \in 0..(max_qno - 1) : \E j \in 1..Len(trace) : trace[j].idx = i
        /\ (Len(trace) > 0 /\ ~(trace[Len(trace)].idx = max_qno - 1 /\ Processed(Len(trace))))
              => pc = "step"

\* the same for the walks in which no step attempt ended in an exception,
\* neither of the fetch nor of the extractor
C21_WhenExtracted ==
    (pc \in {"step", "done", "written"} /\ AllAnswered /\ (Len(trace) > 0 \/ pc = "step")) =>
        /\ Len(trace) > 0 => trace[1].idx = 0 /\ trace[1].attempt = 1
        /\ \A j \in 2..Len(trace) :
              IF Processed(j - 1)
              THEN trace[j].idx = trace[j - 1].idx + 1 /\ trace[j].attempt = 1
              ELSE trace[j].idx = trace[j - 1].idx /\ trace[j].attempt = trace[j - 1].attempt + 1
        /\ \A j \in 1..Len(trace) : trace[j].idx < max_qno
        /\ pc \in {"done", "written"} =>
              /\ Len(trace) > 0
              /\ trace[Len(trace)].idx = max_qno - 1
              /\ Processed(Len(trace))
              /\ \A i \in 0..(max_qno - 1) : \E j \in 1..Len(trace) : trace[j].idx = i
        /\ (Len(trace) > 0 /\ ~(trace[Len(trace)].idx = max_qno - 1 /\ Processed(Len(trace))))
              => pc = "step"

\* a walk of three steps is over in which step 0 advanced after a stalled
\* attempt, step 1 was abandoned and step 2 advanced at once
C21_FullWalk ==
    /\ pc = "done"
    /\ max_qno = 3
    /\ AllAnswered
    /\ Len(trace) = 6
    /\ Stalled(1) /\ trace[2].found /\ trace[2].idx = 0
    /\ Stalled(3) /\ Stalled(4) /\ Stalled(5) /\ trace[5].idx = 1
    /\ trace[6].idx = 2 /\ trace[6].found
-----------------------------------------------------------------------------
(* Claims on the start of a session *)

\* the session's start page came in and holds no session identifier
NoSidOnStartPage ==
    /\ lastOp.op = "start"
    /\ lastOp.got
    /\ lastOp.page.t = "str"
    /\ ~HasField(lastOp.page.v, "sid=")

\* the records a run with --resume loaded from the file at out_path
LoadedRecords ==
    IF args.resume /\ outFile # NoFile THEN IndexById(outFile.questions, <<>>) ELSE <<>>

\* C22. Missing session identifier aborts at STARTING.  When the start page of
\* the session holds no session identifier, the run exits with SystemExit there:
\* no step request of the session has been or will be submitted, the store
\* holds no record but those it resumed from, and nothing is or will be written.
C22_MissingSidAborts ==
    NoSidOnStartPage =>
        /\ pc = "exit"
        /\ ret = Raise("SystemExit")
        /\ trace = <<>>
        /\ by_id = LoadedRecords
        /\ added = 0 /\ replaced = 0 /\ skipped = 0
        /\ sid = None
        /\ (outFile = NoFile \/ args.resume)
        /\ ~ENABLED Finish
        /\ ~ENABLED (\E script \in StepScripts(idx) : StepAttempt(script))

\* C22 witness: the start page of the session was served without identifier
\* and the run has exited.
C22_Witness ==
    /\ NoSidOnStartPage
    /\ pc = "exit"
    /\ lastOp.page.v = HtmlBody
-----------------------------------------------------------------------------
(* The fingerprint of a request: _cache_path on pairs of requests *)

\* dicts of parameters: none, two entries in either order, one other entry
ParamDicts ==
    {<<>>,
     <<[k |-> <<"a">>, v |-> <<"1">>], [k |-> <<"b">>, v |-> <<"2">>]>>,
     <<[k |-> <<"b">>, v |-> <<"2">>], [k |-> <<"a">>, v |-> <<"1">>]>>,
     <<[k |-> <<"a">>, v |-> <<"2">>]>>}

\* requests that differ in url, params, json_body, form data and cache key
KeyConfigs ==
    {[url |-> u, method |-> IF d = None THEN "GET" ELSE "POST", data |-> d,
      json_body |-> j, params |-> p, cache_key |-> ck, return_response |-> FALSE] :
        u \in {BASE_URL, BASE_URL \o <<"2">>}, d \in {None, <<"x">>, <<"y">>},
        j \in ParamDicts, p \in ParamDicts, ck \in {None, <<"a", "1", "-", "0">>}}

\* self._cache_path(config) for each request of a pair
CachePaths ==
    /\ lastOp.op = "configs"
    /\ lastOp' = [op |-> "cache_path", a |-> lastOp.a, b |-> lastOp.b,
                  ka |-> cache_path(lastOp.a), kb |-> cache_path(lastOp.b)]
    /\ ret' = Return(cache_path(lastOp.b))
    /\ UNCHANGED <<storeVars, clientVars, walkVars, auxVars>>

InitKey ==
    /\ NewStore(FALSE)
    /\ NewClient(TRUE, default_throttle_seconds, default_max_retries, StartClock, <<>>)
    /\ NoWalk
    /\ NoAux
    /\ \E a \in KeyConfigs, b \in KeyConfigs : lastOp = [op |-> "configs", a |-> a, b |-> b]
    /\ ret = Return(None)

NextKey == CachePaths

SpecKey == InitKey /\ [][NextKey]_vars

\* two dicts hold the same entries, in whatever order
SameEntries(d1, d2) == {d1[i] : i \in 1..Len(d1)} = {d2[i] : i \in 1..Len(d2)}

\* two requests have the same url, query parameters and body parameters
SameRequest(a, b) ==
    /\ a.url = b.url
    /\ SameEntries(a.params, b.params)
    /\ SameEntries(a.json_body, b.json_body)
    /\ a.data = b.data

\* C23. Fingerprint derivation.  A request with a cache key of its own gets
\* that key; two requests without one get the same fingerprint when they have
\* the same url, query parameters and body parameters in whatever order, and
\* different fingerprints when they differ in one of these.
C23_Fingerprint ==
    lastOp.op = "cache_path" =>
        /\ lastOp.a.cache_key # None => lastOp.ka = lastOp.a.cache_key
        /\ (lastOp.a.cache_key = None /\ lastOp.b.cache_key = None) =>
              (lastOp.ka = lastOp.kb <=> SameRequest(lastOp.a, lastOp.b))

\* the part that holds: the key of its own, and equal fingerprints for equal
\* requests
C23_EqualRequests ==
    lastOp.op = "cache_path" =>
        /\ lastOp.a.cache_key # None => lastOp.ka = lastOp.a.cache_key
        /\ (lastOp.a.cache_key = None /\ lastOp.b.cache_key = None
            /\ SameRequest(lastOp.a, lastOp.b)) => lastOp.ka = lastOp.kb
-----------------------------------------------------------------------------
(* Claims on the carry set *)

\* the three hidden tokens a request carries, and those a page holds
TokensSent(data) == [q |-> Sent(data, "_q"), r |-> Sent(data, "_r"), c |-> Sent(data, "_c")]
TokensOf(html) ==
    [q |-> IF HasField(html, "_q=") THEN FieldValue(html, "_q=") ELSE <<>>,
     r |-> IF HasField(html, "_r=") THEN FieldValue(html, "_r=") ELSE <<>>,
     c |-> IF HasField(html, "_c=") THEN FieldValue(html, "_c=") ELSE <<>>]
NoTokens == [q |-> <<>>, r |-> <<>>, c |-> <<>>]
CarryTokens == [q |-> carry.q, r |-> carry.r, c |-> carry.c]

\* attempt j advanced: its response held the marker of its step
Advanced(j) == trace[j].exc = "" /\ trace[j].found

\* the step of attempt j was abandoned with it
Abandoned(j) == Stalled(j) /\ trace[j].attempt = StallBudget

\* C24. Stalled step handling.  No step gets more than 3 attempts.  After a
\* stalled attempt that was not the third, the walker is at the same step with
\* the same carry set, and the request it sends next is for the same index with
\* the same form data.  After a third stalled attempt the step is in the log of
\* abandoned steps, the carry set is still what the requests of the stalled step
\* carried, and the request sent next is for the next index with these same
\* tokens.  The log holds abandoned steps only.
C24_StalledStep ==
    /\ \A j \in 1..Len(trace) : trace[j].attempt <= StallBudget
    /\ \A j \in 1..Len(trace) :
          Stalled(j) =>
              /\ j > 1 /\ trace[j].attempt > 1 =>
                    /\ Stalled(j - 1)
                    /\ trace[j - 1].idx = trace[j].idx
                    /\ trace[j - 1].data = trace[j].data
              /\ (j = Len(trace) /\ pc = "step") =>
                    /\ CarryTokens = TokensSent(trace[j].data)
                    /\ carry.result = <<"0">>
                    /\ IF Abandoned(j) THEN idx = trace[j].idx + 1 /\ attempts = 0
                       ELSE idx = trace[j].idx /\ attempts = trace[j].attempt
              /\ j < Len(trace) =>
                    /\ TokensSent(trace[j + 1].data) = TokensSent(trace[j].data)
                    /\ IF Abandoned(j)
                       THEN trace[j + 1].idx = trace[j].idx + 1 /\ trace[j + 1].attempt = 1
                       ELSE /\ trace[j + 1].idx = trace[j].idx
                            /\ trace[j + 1].attempt = trace[j].attempt + 1
                            /\ trace[j + 1].data = trace[j].data
              /\ Abandoned(j) =>
                    \E k \in 1..Len(log) : log[k] = [year |-> trace[j].year, qno |-> trace[j].idx]
    /\ \A k \in 1..Len(log) :
          \E j \in 1..Len(trace) :
              Abandoned(j) /\ log[k] = [year |-> trace[j].year, qno |-> trace[j].idx]

\* C24 witness: step 0 advanced with tokens, step 1 stalled three times and was
\* abandoned, and the request of step 2 went out with the tokens of step 0.
C24_Witness ==
    /\ Len(trace) >= 5
    /\ Advanced(1)
    /\ Stalled(2) /\ Stalled(3) /\ Abandoned(4)
    /\ trace[4].idx = 1
    /\ log = <<[year |-> trace[4].year, qno |-> 1]>>
    /\ trace[5].idx = 2
    /\ TokensSent(trace[5].data) = TokensOf(trace[1].html)
    /\ TokensSent(trace[5].data).q # <<>>

\* the last attempt before j that advanced, 0 when there is none
LastAdvance(j) ==
    LET S == {k \in 1..(j - 1) : Advanced(k)} IN
    IF S = {} THEN 0 ELSE CHOOSE k \in S : \A m \in S : m <= k

\* C25. Carry-token chain.  The tokens _q, _r, _c of every step request are
\* those of the page of the last attempt before it that advanced, and empty
\* when none has; the carry set the walker holds at a step is that of the last
\* advancing page, whether or not that page gave records; and every request
\* but the first follows an attempt whose response was processed to the end.
C25_CarryChain ==
    /\ \A j \in 1..Len(trace) :
          /\ TokensSent(trace[j].data) =
                IF LastAdvance(j) = 0 THEN NoTokens ELSE TokensOf(trace[LastAdvance(j)].html)
          /\ j > 1 => trace[j - 1].exc = ""
    /\ pc = "step" =>
          CarryTokens = IF LastAdvance(Len(trace) + 1) = 0 THEN NoTokens
                        ELSE TokensOf(trace[LastAdvance(Len(trace) + 1)].html)

\* C25 witness: step 0 advanced with a question, step 1 advanced with a page
\* that gave no record, step 2 stalled once, and both requests of step 2 carried
\* the tokens of the page of step 1.
C25_Witness ==
    /\ Len(trace) = 4
    /\ Advanced(1) /\ Len(trace[1].handed) = 1
    /\ Advanced(2) /\ trace[2].handed = <<>>
    /\ Stalled(3)
    /\ TokensSent(trace[3].data) = TokensOf(trace[2].html)
    /\ TokensSent(trace[4].data) = TokensOf(trace[2].html)
    /\ TokensOf(trace[2].html) # TokensOf(trace[1].html)
    /\ TokensOf(trace[2].html).q = <<"k", "2">>

\* C26. Result flag is always the continue value.  Every step request carries
\* result = "0", also the one that follows a page whose hidden result input
\* holds another value; the carry set of a walker at a step holds "0"; and the
\* assertion "result must be 0" of fetch_question_page never fails.
C26_ResultIsZero ==
    /\ \A j \in 1..Len(trace) : Sent(trace[j].data, "result") = <<"0">>
    /\ pc = "step" => carry.result = <<"0">>
    /\ ret # Raise("AssertionError")

\* C26 witness: a page that advanced held result = 1, and the request after it
\* went out with result = 0.
C26_Witness ==
    /\ Len(trace) >= 2
    /\ Advanced(1)
    /\ FieldValue(trace[1].html, "result=") = <<"1">>
    /\ Sent(trace[2].data, "result") = <<"0">>
    /\ trace[2].idx = 1
-----------------------------------------------------------------------------
(* Claims on the cache of the client *)

\* every entry the cache held before the fetch is still there with its bytes,
\* and the only key a fetch may add is that of its request
EntriesKept ==
    /\ \A i \in 1..Len(lastOp.pre_cache) :
          /\ DictHas(cache, lastOp.pre_cache[i].k)
          /\ DictGet(cache, lastOp.pre_cache[i].k) = lastOp.pre_cache[i].v
    /\ \A i \in 1..Len(cache) :
          DictHas(lastOp.pre_cache, cache[i].k) \/ cache[i].k = lastOp.key

\* the fetch wrote an entry
WroteEntry == lastOp.op = "fetch" /\ ~DictHas(lastOp.pre_cache, lastOp.key) /\ DictHas(cache, lastOp.key)

\* the answer to the last network call of the fetch
LastSeen == lastOp.seen[Len(lastOp.seen)]

\* C27. Cache is write-once and holds only successful responses.  A fetch
\* writes an entry only with the cache on and only after its request succeeded:
\* the bytes are the body of the 2xx response that ended the request, not of an
\* attempt that failed or was retried.  An entry that exists is never changed or
\* removed by a later fetch, and a fetch whose fingerprint has an entry makes no
\* network call.
C27_CacheWriteOnce ==
    lastOp.op = "fetch" =>
        /\ EntriesKept
        /\ (cache_enabled /\ DictHas(lastOp.pre_cache, lastOp.key)) => lastOp.calls = <<>>
        /\ WroteEntry =>
              /\ cache_enabled
              /\ lastOp.seen # <<>>
              /\ LastSeen.exc = ""
              /\ 200 <= LastSeen.status /\ LastSeen.status < 300
              /\ DictGet(cache, lastOp.key) = LastSeen.body

\* the same with success taken as the client takes it: the request returned a
\* response whose status raise_for_status lets pass and the loop does not retry
C27_AsTheClientSeesSuccess ==
    lastOp.op = "fetch" =>
        /\ EntriesKept
        /\ (cache_enabled /\ DictHas(lastOp.pre_cache, lastOp.key)) => lastOp.calls = <<>>
        /\ WroteEntry =>
              /\ cache_enabled
              /\ lastOp.seen # <<>>
              /\ LastSeen.exc = ""
              /\ ~raise_for_status(LastSeen.status)
              /\ DictGet(cache, lastOp.key) = LastSeen.body
        /\ (~cache_enabled \/ lastOp.seen = <<>> \/ LastSeen.exc # "" \/ raise_for_status(LastSeen.status))
              => cache = lastOp.pre_cache

\* C28. A cache hit has no throttle effect.  A fetch answered from the cache
\* makes no network call, ends at the time it began (no sleep), leaves the
\* throttle clock _last_request_time and the cache as they were, and returns
\* normally.
C28_HitNoThrottle ==
    (lastOp.op = "fetch" /\ lastOp.hit) =>
        /\ lastOp.calls = <<>>
        /\ now = lastOp.at
        /\ last_request_time = lastOp.pre_last
        /\ cache = lastOp.pre_cache
        /\ ret.exc = ""

\* C28 witness: a hit at a time when a network call would have had to wait
\* for the throttle.
C28_Witness ==
    /\ lastOp.op = "fetch"
    /\ lastOp.hit
    /\ lastOp.n = 2
    /\ lastOp.at - lastOp.pre_last < throttle_seconds
    /\ now = lastOp.at
-----------------------------------------------------------------------------
(* Claims on the walk with the cache on; a run over two sessions *)

\* C29, as claimed: with the cache on, every attempt of a step after a stalled
\* one makes a network call and is not answered from the cache.
C29_RetryReachesSite ==
    cache_enabled =>
        \A j \in 2..Len(trace) :
            (Stalled(j - 1) /\ trace[j].attempt > 1) =>
                ~trace[j].hit /\ trace[j].calls >= 1

\* main with --sessions naming the two sessions of the site and --max-qno 1 or
\* 2; on a site that sends no charset, where the labels are not found, with
\* --sessions all and --max-qno 1
RunSteps == {1, 2}
RunArgs == Plain(LabelOf(Year1) \o <<",">> \o LabelOf(Year2))

InitRun ==
    /\ NewStore(FALSE)
    /\ \E e \in BOOLEAN : NewClient(e, default_throttle_seconds, default_max_retries, StartClock, <<>>)
    /\ pc = "discover"
    /\ sessions = <<>>
    /\ max_qno \in RunSteps
    /\ site \in Sites
    /\ site.pages # SiteSuperscript
    /\ args = IF site.ctype \in CharsetTypes THEN RunArgs ELSE Plain(ArgAll)
    /\ site.ctype \notin CharsetTypes => max_qno = 1
    /\ sid = None
    /\ start_time = None
    /\ idx = 0
    /\ attempts = 0
    /\ carry = <<>>
    /\ log = <<>>
    /\ trace = <<>>
    /\ NoAux
    /\ lastOp = [op |-> "init"]
    /\ ret = Return(None)

SpecRun == InitRun /\ [][NextWalk]_vars

\* C30, as claimed: with the cache on, a step attempt that is answered from the
\* cache is answered with an entry written by an earlier attempt of the same
\* step of the same session, and step requests of different sessions carry
\* different session identifiers.
C30_SessionsApart ==
    cache_enabled =>
        \A j \in 1..Len(trace) :
            /\ trace[j].hit =>
                  \E k \in 1..(j - 1) :
                      /\ trace[k].year = trace[j].year
                      /\ trace[k].idx = trace[j].idx
                      /\ ~trace[k].hit
            /\ \A k \in 1..Len(trace) :
                  trace[k].year # trace[j].year =>
                      Sent(trace[k].data, "sid") # Sent(trace[j].data, "sid")
-----------------------------------------------------------------------------
(* Claims on synthesized ids and on the length of a walk *)

\* the questions handed to the store so far, in order, each with the record,
\* whether its id was synthesized, and what store.add returned
RECURSIVE HandedUpTo(_)
HandedUpTo(j) ==
    IF j = 0 THEN <<>>
    ELSE HandedUpTo(j - 1) \o (IF "handed" \in DOMAIN trace[j] THEN trace[j].handed ELSE <<>>)
AllHanded == HandedUpTo(Len(trace))

\* C31, as claimed: a question whose id the walker synthesized gets an id that
\* no question handed to the store before it had, and store.add takes it in
\* instead of skipping it.
C31_SynthesizedIdFresh ==
    \A n \in 1..Len(AllHanded) :
        AllHanded[n].synth =>
            /\ \A m \in 1..(n - 1) : AllHanded[m].q.id # AllHanded[n].q.id
            /\ AllHanded[n].ret.exc = ""
            /\ AllHanded[n].ret.val

\* the walk of the session began (it got its identifier) and the run is over
WalkOver == sid # None /\ pc \in {"done", "written", "crashed", "exit"}

\* the network attempts of the step requests so far
RECURSIVE CallsUpTo(_)
CallsUpTo(j) == IF j = 0 THEN 0 ELSE CallsUpTo(j - 1) + trace[j].calls

\* C32, as claimed: a walk of max_qno steps submits at most 3 * max_qno step
\* requests, each with at most max_retries network attempts, so at most
\* 3 * max_qno * max_retries attempts in all; and when it is over it has
\* submitted at least max_qno step requests, whatever the site answered.
C32_BoundedWalk ==
    /\ Len(trace) <= StallBudget * max_qno
    /\ \A j \in 1..Len(trace) : trace[j].calls <= max_retries
    /\ CallsUpTo(Len(trace)) <= StallBudget * max_qno * max_retries
    /\ WalkOver => Len(trace) >= max_qno

\* the upper bounds alone, and the lower bound for walks whose every step
\* request was answered with a page
C32_UpperBounds ==
    /\ Len(trace) <= StallBudget * max_qno
    /\ \A j \in 1..Len(trace) : trace[j].calls <= max_retries
    /\ CallsUpTo(Len(trace)) <= StallBudget * max_qno * max_retries
    /\ (WalkOver /\ AllAnswered) => Len(trace) >= max_qno

====
